---- MODULE Spec2Model ----
(***************************************************************************)
(* Wellplate extraction and coordinate mapping of the 384-well scripts     *)
(* (DORAScript_384.py, EPDScript_384.py): the walker get_next_key, the     *)
(* pre-check get_wellplate_data and the integrator                         *)
(* integrate_wellplate_data, as a state machine of one run.                *)
(***************************************************************************)
EXTENDS Integers, Sequences, FiniteSets, TLC

VARIABLES
    script,          \* which script runs: "DORA" or "EPD"
    pc,              \* position of the run in run_script
    groups,          \* the list define_groups / define_tissues returns
    wellplate,       \* the sheet region extract_wellplate returns
    wellplate_data,  \* the dictionary get_wellplate_data builds
    current_key,     \* the walker's address in integrate_wellplate_data
    cursor,          \* <<group, sample, parallel>> being filled
    well_nbr,        \* EPD: the for-loop counter of the current parallel
    error,           \* the message exit_by_error was called with
    walk_prev,       \* walker run: the address the last step started from
    visited,         \* walker run: the addresses already left behind
    data_file,       \* the workbook: its sheets and the rows of the export
    sheet,           \* locator run: the data sheet that is searched
    found,           \* locator run: the wellplates located so far
    next_row,        \* 96-well extractor: the row to read onwards from
    interrupts,      \* the KeyboardInterrupts caught so far
    stop_status,     \* the status exit_by_interruption has printed, or ""
    p_value,         \* STAT script: the p-value of a test, in 1/100000
    symbol,          \* STAT script: what get_significance_symbol returned
    fit_samples,     \* 4PL script: how the optimizer ends on each sample
    fit_results,     \* 4PL script: the results fit_group has recorded
    dil_series,      \* the dilution series of a group
    dil_calls        \* the calls of set_dil_series made on the group

vars == <<script, pc, groups, wellplate, wellplate_data, current_key,
          cursor, well_nbr, error, walk_prev, visited, data_file,
          sheet, found, next_row, interrupts, stop_status,
          p_value, symbol, fit_samples, fit_results, dil_series, dil_calls>>

\* the variables of a run of the pipeline of the 384-well scripts
mainVars == <<groups, wellplate, wellplate_data, current_key, cursor,
              well_nbr, walk_prev, visited, data_file>>

\* the variables of the significance symbols
statVars == <<p_value, symbol>>

\* the variables of the curve fits
fitVars == <<fit_samples, fit_results>>

\* the variables of the dilution series
dilVars == <<dil_series, dil_calls>>

\* the variables of the interruption of a run
sigVars == <<interrupts, stop_status>>

\* the variables of the locator runs
locVars == <<sheet, found, next_row>>

(***************************************************************************)
(* Program constants.                                                      *)
(***************************************************************************)
WELLPLATE_ROWS == 16
WELLPLATE_COLS == 24
WELLS_IN_A_PARALLEL == 12

\* [i for i in range(1, WELLPLATE_COLS + 1, WELLS_IN_A_PARALLEL)]
PARALLEL_FIRST_COLS ==
    [k \in 1..((WELLPLATE_COLS - 1) \div WELLS_IN_A_PARALLEL + 1)
        |-> 1 + (k - 1) * WELLS_IN_A_PARALLEL]

\* Python's None as a key (a key is a pair, None the empty tuple).
NoKey == <<>>

(***************************************************************************)
(* Python built-ins used by the walker: ord, chr, int, str, str.zfill.     *)
(***************************************************************************)
UPPERCASE == <<"A","B","C","D","E","F","G","H","I","J","K","L","M",
               "N","O","P","Q","R","S","T","U","V","W","X","Y","Z">>

DIGITS == <<"0","1","2","3","4","5","6","7","8","9">>

ord(c) == 64 + (CHOOSE i \in 1..Len(UPPERCASE) : UPPERCASE[i] = c)

chr(n) == UPPERCASE[n - 64]

\* str(n) for the two-digit range the scripts use
str(n) == IF n < 10 THEN DIGITS[n + 1]
          ELSE DIGITS[(n \div 10) + 1] \o DIGITS[(n % 10) + 1]

\* s.zfill(2)
zfill2(s) == IF Len(s) < 2 THEN "0" \o s ELSE s

\* the value of each decimal string of two digits (@@ <<>> adds nothing to
\* the function)
INT_TABLE == [t \in {zfill2(str(n)) : n \in 0..99} |->
                CHOOSE n \in 0..99 : zfill2(str(n)) = t] @@ <<>>

\* s.isdigit() of a string of at most two characters
isdigit(s) == zfill2(s) \in DOMAIN INT_TABLE

\* int(s) of a decimal string of at most two digits ("7" and "07" are 7)
int(s) == INT_TABLE[zfill2(s)]

SeqMax(S) == CHOOSE m \in S : \A x \in S : x <= m

(***************************************************************************)
(* get_next_key: the walker's step.                                        *)
(***************************************************************************)
\* a plausible slip: walk the rows one by one instead of odd rows first
get_next_key_row_major(key) ==
    LET col_num_int == int(key[2])
        segment_start == SeqMax({PARALLEL_FIRST_COLS[k] : k \in
                            {j \in DOMAIN PARALLEL_FIRST_COLS :
                                PARALLEL_FIRST_COLS[j] <= col_num_int}})
        segment_end == segment_start + WELLS_IN_A_PARALLEL
    IN  IF segment_end <= col_num_int + 1
        THEN IF ord("A") + WELLPLATE_ROWS <= ord(key[1]) + 1
             THEN IF segment_start = PARALLEL_FIRST_COLS[Len(PARALLEL_FIRST_COLS)]
                  THEN NoKey
                  ELSE <<"A", zfill2(str(segment_end))>>
             ELSE <<chr(ord(key[1]) + 1), zfill2(str(segment_start))>>
        ELSE <<key[1], zfill2(str(col_num_int + 1))>>

\* a plausible slip: the end of the plate wraps to the first cell
get_next_key_wrap(key) ==
    LET col_num_int == int(key[2])
        segment_start == SeqMax({PARALLEL_FIRST_COLS[k] : k \in
                            {j \in DOMAIN PARALLEL_FIRST_COLS :
                                PARALLEL_FIRST_COLS[j] <= col_num_int}})
        segment_end == segment_start + WELLS_IN_A_PARALLEL
        next_row_char_ascii == ord(key[1]) + 2
    IN  IF segment_end <= col_num_int + 1
        THEN IF ord("B") + WELLPLATE_ROWS <= next_row_char_ascii
             THEN IF segment_start = PARALLEL_FIRST_COLS[Len(PARALLEL_FIRST_COLS)]
                  THEN <<"A", zfill2(str(PARALLEL_FIRST_COLS[1]))>>
                  ELSE <<"A", zfill2(str(segment_end))>>
             ELSE IF ord("A") + WELLPLATE_ROWS <= next_row_char_ascii
                  THEN <<"B", zfill2(str(segment_start))>>
                  ELSE <<chr(next_row_char_ascii), zfill2(str(segment_start))>>
        ELSE <<key[1], zfill2(str(col_num_int + 1))>>

\* a plausible slip: the even sweep restarts at row A instead of row B
get_next_key_no_even(key) ==
    LET col_num_int == int(key[2])
        segment_start == SeqMax({PARALLEL_FIRST_COLS[k] : k \in
                            {j \in DOMAIN PARALLEL_FIRST_COLS :
                                PARALLEL_FIRST_COLS[j] <= col_num_int}})
        segment_end == segment_start + WELLS_IN_A_PARALLEL
        next_row_char_ascii == ord(key[1]) + 2
    IN  IF segment_end <= col_num_int + 1
        THEN IF ord("B") + WELLPLATE_ROWS <= next_row_char_ascii
             THEN IF segment_start = PARALLEL_FIRST_COLS[Len(PARALLEL_FIRST_COLS)]
                  THEN NoKey
                  ELSE <<"A", zfill2(str(segment_end))>>
             ELSE IF ord("A") + WELLPLATE_ROWS <= next_row_char_ascii
                  THEN <<"A", zfill2(str(segment_start))>>
                  ELSE <<chr(next_row_char_ascii), zfill2(str(segment_start))>>
        ELSE <<key[1], zfill2(str(col_num_int + 1))>>

get_next_key(key) ==
    LET ASCII_A == ord("A")
        ASCII_B == ord("B")
        ASCII_JUMP == ASCII_A + WELLPLATE_ROWS
        ASCII_RESET == ASCII_B + WELLPLATE_ROWS
        row_char == key[1]
        col_num == key[2]
        row_char_ascii == ord(row_char)
        col_num_int == int(col_num)
        segment_start == SeqMax({PARALLEL_FIRST_COLS[k] : k \in
                            {j \in DOMAIN PARALLEL_FIRST_COLS :
                                PARALLEL_FIRST_COLS[j] <= col_num_int}})
        segment_end == segment_start + WELLS_IN_A_PARALLEL
        next_col_num_int == col_num_int + 1
        next_row_char_ascii == row_char_ascii + 2
    IN  IF segment_end <= next_col_num_int
        THEN IF ASCII_RESET <= next_row_char_ascii
             THEN IF segment_start = PARALLEL_FIRST_COLS[Len(PARALLEL_FIRST_COLS)]
                  THEN NoKey
                  ELSE <<chr(ASCII_A), zfill2(str(segment_end))>>
             ELSE IF ASCII_JUMP <= next_row_char_ascii
                  THEN <<chr(ASCII_B), zfill2(str(segment_start))>>
                  ELSE <<chr(next_row_char_ascii), zfill2(str(segment_start))>>
        ELSE <<row_char, zfill2(str(next_col_num_int))>>

(***************************************************************************)
(* Python values of sheet cells: None, a number, a string.                 *)
(***************************************************************************)
PyNone == [t |-> "None", v |-> 0]

PyNum(n) == [t |-> "number", v |-> n]

PyStr(s) == [t |-> "str", v |-> s]

\* isinstance(x, (int, float))
is_number(x) == x.t = "number"

\* the truth value of a cell value: None, 0 and "" are false
truthy(x) == CASE x.t = "None" -> FALSE
               [] x.t = "number" -> x.v # 0
               [] OTHER -> x.v # ""

LOWERCASE == <<"a","b","c","d","e","f","g","h","i","j","k","l","m",
               "n","o","p","q","r","s","t","u","v","w","x","y","z">>

Range(f) == {f[i] : i \in DOMAIN f}

UPPER_LETTERS == Range(UPPERCASE)

LOWER_LETTERS == Range(LOWERCASE)

\* s.upper() of a one-letter string
upper(s) == IF s \in LOWER_LETTERS
            THEN UPPERCASE[CHOOSE i \in DOMAIN LOWERCASE : LOWERCASE[i] = s]
            ELSE s

\* len(s) == 1 and s.isalpha()
is_single_alpha(s) == s \in UPPER_LETTERS \/ s \in LOWER_LETTERS

\* str(col_num) of a header cell value
py_str(x) == IF x.t = "number" THEN str(x.v) ELSE x.v

NoError == [kind |-> "none"]

\* a sheet region without content, and the dictionary before it is built
NoWellplate == [row_hdr |-> <<>>, col_hdr |-> <<>>, cells |-> <<>>]

\* the workbook as load_excel_file opens it: the data sheet, nothing exported
DATA_SHEET == <<"data">>

NewDataFile == [sheets |-> <<DATA_SHEET>>, export_rows |-> <<>>]

\* no sheet is searched
NoSheet == <<>>

NoData == [row_chars |-> {}, col_nums |-> {}, wells |-> <<>>]

(***************************************************************************)
(* Bounds of the model.                                                    *)
(***************************************************************************)
MaxGroups == 2           \* groups (tissues) the user defines
MaxSamples == 2          \* sample count the user enters for one group
MaxTotalParallels == 4   \* parallels over all samples of all groups

(***************************************************************************)
(* Classes: Parallel, Sample, Group (DORA); Parallel, Sample, Tissue (EPD) *)
(***************************************************************************)
\* A well is {"value", "row_char", "col_num"}; NoWell is Python's None.
NoWell == [value |-> PyNone, row_char |-> "", col_num |-> ""]

Well(absorbance, row_char, col_num) ==
    [value |-> absorbance, row_char |-> row_char, col_num |-> col_num]

Parallel ==
    [negative_control_1 |-> NoWell, negative_control_2 |-> NoWell,
     virals |-> <<>>, viral_control |-> NoWell]

Sample(label, parallels) ==
    [label |-> label, parallels |-> [k \in 1..parallels |-> Parallel]]

Group(analysis_type, ordinal, is_filler, samples) ==
    [is_filler |-> is_filler, analysis_type |-> analysis_type,
     ordinal |-> ordinal, samples |-> samples]

EPD_Parallel == [controls |-> <<>>, virals |-> <<>>]

EPD_Sample(tube_label, parallels) ==
    [tube_label |-> tube_label,
     parallels |-> [k \in 1..parallels |-> EPD_Parallel]]

Tissue(tissue_title, ordinal, samples) ==
    [title |-> tissue_title, ordinal |-> ordinal, samples |-> samples]

\* Parallel.get_wells
get_wells(parallel) ==
    <<parallel.negative_control_1, parallel.negative_control_2>>
        \o parallel.virals \o <<parallel.viral_control>>

\* a plausible slip: a reading of 0 is taken for an empty well
get_filled_well_count_truthy(parallel) ==
    LET wells == get_wells(parallel)
    IN  Cardinality({k \in DOMAIN wells :
            wells[k] # NoWell /\ truthy(wells[k].value)})

\* Parallel.get_filled_well_count
get_filled_well_count(parallel) ==
    LET wells == get_wells(parallel)
    IN  Cardinality({k \in DOMAIN wells :
            wells[k] # NoWell /\ is_number(wells[k].value)})

\* a plausible slip: the viral control is not asked for
is_filled_without_vir_ctrl(parallel) ==
    /\ parallel.negative_control_1 # NoWell
    /\ parallel.negative_control_2 # NoWell
    /\ Len(parallel.virals) = 9

\* Parallel.is_filled
is_filled(parallel) ==
    /\ parallel.negative_control_1 # NoWell
    /\ parallel.negative_control_2 # NoWell
    /\ parallel.viral_control # NoWell
    /\ Len(parallel.virals) = 9

(***************************************************************************)
(* define_groups / define_tissues: one pass of the loop adds one group.    *)
(***************************************************************************)
MOCK_ANALYSIS_TYPE == "EXCLUDE_DATA"

\* the analysis type (tissue title) the configuration file supplies
CONFIGURED_TYPE == "TYPE"

\* ALL_ANALYSIS_TYPES without the mock type: the analysis types of a
\* configuration file that lists two of them
CONFIGURED_TYPES == {CONFIGURED_TYPE, "TYPE_2"}

PARALLEL_CHOICES == IF script = "DORA" THEN <<1, 2, 4, 8>> ELSE <<4, 8>>

\* int(round(len(PARALLEL_FIRST_COLS) * WELLPLATE_ROWS / PARALLEL_CHOICES[0]))
MAX_SAMPLES == (Len(PARALLEL_FIRST_COLS) * WELLPLATE_ROWS) \div PARALLEL_CHOICES[1]

RECURSIVE SeqSum(_)
SeqSum(q) == IF q = <<>> THEN 0 ELSE Head(q) + SeqSum(Tail(q))

\* [x for q in qq for x in q]
RECURSIVE Flatten(_)
Flatten(qq) == IF qq = <<>> THEN <<>> ELSE Head(qq) \o Flatten(Tail(qq))

\* sum(len(sample.parallels) for group in groups for sample in group.samples)
parallel_count_of(gs) ==
    SeqSum([g \in DOMAIN gs |->
        SeqSum([k \in DOMAIN gs[g].samples |-> Len(gs[g].samples[k].parallels)])])

\* the labels a user gives to groups, and the first one not yet taken by
\* a group of the same analysis type
GROUP_LABELS == <<"G1", "G2", "G3", "G4">>

FreeLabel(gs, analysis_type) ==
    LET occupied_ordinals ==
            {gs[g].ordinal :
                g \in {h \in DOMAIN gs : gs[h].analysis_type = analysis_type}}
    IN  GROUP_LABELS[CHOOSE k \in DOMAIN GROUP_LABELS :
            /\ GROUP_LABELS[k] \notin occupied_ordinals
            /\ \A m \in 1..(k - 1) : GROUP_LABELS[m] \in occupied_ordinals]

NewGroup(gs, analysis_type, sample_count, parallel_count) ==
    IF script = "DORA"
    THEN IF analysis_type = MOCK_ANALYSIS_TYPE
         THEN Group(MOCK_ANALYSIS_TYPE,
                    1 + Cardinality({g \in DOMAIN gs : gs[g].is_filler}),
                    TRUE,
                    [k \in 1..sample_count |-> Sample(<<"excluded", k>>, parallel_count)])
         ELSE Group(analysis_type, FreeLabel(gs, analysis_type), FALSE,
                    [k \in 1..sample_count |-> Sample(<<"sample", k>>, parallel_count)])
    ELSE Tissue(CONFIGURED_TYPE, 1 + Len(gs),
                [k \in 1..sample_count |-> EPD_Sample(<<"tube", k>>, parallel_count)])

DefineGroup ==
    /\ pc = "define_groups"
    /\ Len(groups) < MaxGroups
    /\ \E analysis_type \in (IF script = "DORA"
                               THEN {MOCK_ANALYSIS_TYPE} \cup CONFIGURED_TYPES
                               ELSE {CONFIGURED_TYPE}),
          sample_count \in 1..MaxSamples,
          parallel_count \in Range(PARALLEL_CHOICES),
          another \in BOOLEAN :
        /\ sample_count <= MAX_SAMPLES
        /\ parallel_count_of(groups) + sample_count * parallel_count
              <= MaxTotalParallels
        /\ another =>
              /\ Len(groups) + 1 < MaxGroups
              /\ parallel_count_of(groups) + sample_count * parallel_count
                    + PARALLEL_CHOICES[1] <= MaxTotalParallels
        /\ groups' = Append(groups,
                        NewGroup(groups, analysis_type, sample_count, parallel_count))
        /\ pc' = IF another THEN "define_groups" ELSE "extract"
    /\ UNCHANGED <<script, wellplate, wellplate_data, current_key, cursor,
                   well_nbr, error, walk_prev, visited,
                   data_file>>
    /\ UNCHANGED locVars
    /\ UNCHANGED sigVars
    /\ UNCHANGED statVars
    /\ UNCHANGED fitVars
    /\ UNCHANGED dilVars

(***************************************************************************)
(* The wellplate region of the sheet (extract_wellplate): row_hdr[i] is    *)
(* wellplate[i][0].value, col_hdr[j] is wellplate[0][j].value and          *)
(* cells[<<i, j>>] is wellplate[i][j].value; a cell outside DOMAIN cells   *)
(* is empty (None).                                                        *)
(***************************************************************************)
cell_value(wp, i, j) ==
    IF <<i, j>> \in DOMAIN wp.cells THEN wp.cells[<<i, j>>] ELSE PyNone

\* The plates the model reads.  Row segments that may be filled with 12
\* readings each, in sheet coordinates <<row, first column>>: O/1-12 and
\* B/1-12 (the walker passes from the odd to the even rows between them),
\* P/1-12 and A/13-24 (it changes segment between them).  In sheet order
\* these are A/13-24, B/1-12, O/1-12, P/1-12.
FilledRowCandidates == {<<15, 1>>, <<2, 1>>, <<16, 1>>, <<1, 13>>}

SegmentCells(rs) == {<<rs[1], j>> : j \in rs[2]..(rs[2] + WELLS_IN_A_PARALLEL - 1)}

HoleCell == <<15, 5>>    \* a well of row O left empty
StrayCell == <<4, 7>>    \* a reading in row D, outside the filled rows
ZeroCell == <<2, 4>>     \* a well of row B whose reading is 0
TextCell == <<7, 3>>     \* a cell of row G holding text

\* "plain": headers A..P and 1..24; "zero": the reading of ZeroCell is 0;
\* "text": TextCell holds text; "lower": headers A, b..p and '1'..'24' (the
\* region is one find_wellplate_start returns: its first row label is 'A');
\* "dup_row": the last row is labelled O like the row above it;
\* "no_col": the last column has no label
ReadingVariants == {"plain", "zero"}

HeaderVariants == {"text", "lower", "dup_row", "no_col"}

\* "flat": every well that holds a reading holds the same one
FlatVariants == {"flat"}

\* the reading of every well of a plate on which nothing has developed
FlatReading == PyNum(5)

Reading(c) == PyNum(100 * c[1] + c[2])

Wellplate(rows, holes, strays, variant) ==
    LET filled == UNION {SegmentCells(rs) : rs \in rows}
        numeric == (filled \ holes) \cup strays
        content == numeric \cup (IF variant = "text" THEN {TextCell} ELSE {})
    IN  [row_hdr |-> [i \in 1..WELLPLATE_ROWS |->
                        IF variant = "lower" /\ i > 1 THEN PyStr(LOWERCASE[i])
                        ELSE IF variant = "dup_row" /\ i = WELLPLATE_ROWS
                             THEN PyStr(UPPERCASE[i - 1])
                             ELSE PyStr(UPPERCASE[i])],
         col_hdr |-> [j \in 1..WELLPLATE_COLS |->
                        IF variant = "lower" THEN PyStr(str(j))
                        ELSE IF variant = "no_col" /\ j = WELLPLATE_COLS
                             THEN PyNone
                             ELSE PyNum(j)],
         cells |-> [c \in content |->
                        IF variant = "text" /\ c = TextCell THEN PyStr("n/a")
                        ELSE IF variant = "zero" /\ c = ZeroCell THEN PyNum(0)
                        ELSE IF variant = "flat" THEN FlatReading
                        ELSE Reading(c)]]

\* P/13-24, the segment the walk ends on
LastRowSegment == <<16, 13>>

\* the plates of the runs: the filled rows with or without the hole, the
\* stray reading and the zero; the plates of the header, text and flat
\* variants; and plates whose last segment is filled
Wellplates ==
    {Wellplate(rows, holes, strays, variant) :
        rows \in SUBSET FilledRowCandidates, holes \in SUBSET {HoleCell},
        strays \in SUBSET {StrayCell}, variant \in ReadingVariants}
    \cup {Wellplate(rows, {}, {}, variant) :
        rows \in SUBSET {<<15, 1>>, <<16, 1>>},
        variant \in HeaderVariants \cup FlatVariants}
    \cup {Wellplate(rows \cup {LastRowSegment}, {}, {}, "plain") :
        rows \in SUBSET {<<15, 1>>}}

(***************************************************************************)
(* Validators of get_wellplate_data: <<is_valid, validation_result>>.      *)
(***************************************************************************)
validate_row_char(row_char) ==
    IF row_char.t = "None"
    THEN <<FALSE, [kind |-> "row_char_missing"]>>
    ELSE IF row_char.t = "str" /\ is_single_alpha(row_char.v)
         THEN <<TRUE, upper(row_char.v)>>
         ELSE <<FALSE, [kind |-> "row_char_invalid", row_char |-> row_char]>>

validate_col_num(col_num) ==
    IF col_num.t = "None"
    THEN <<FALSE, [kind |-> "col_num_missing"]>>
    ELSE LET col_num_str == zfill2(py_str(col_num))
         IN  IF isdigit(col_num_str)
                  /\ 1 <= int(col_num_str) /\ int(col_num_str) <= 24
             THEN <<TRUE, col_num_str>>
             ELSE <<FALSE, [kind |-> "col_num_invalid", col_num |-> col_num]>>

validate_absorbance(absorbance, row_char, col_num) ==
    IF absorbance.t = "None" THEN <<TRUE, absorbance>>
    ELSE IF is_number(absorbance) THEN <<TRUE, absorbance>>
    ELSE <<FALSE, [kind |-> "absorbance_invalid", absorbance |-> absorbance,
                   row_char |-> row_char, col_num |-> col_num]>>

(***************************************************************************)
(* get_wellplate_data.  The dictionary is kept as its key set              *)
(* row_chars \X col_nums and its entries that are not None (wells).        *)
(***************************************************************************)
has_key(data, key) ==
    key[1] \in data.row_chars /\ key[2] \in data.col_nums

\* wellplate_data.get(key): None for a missing key
dict_get(data, key) ==
    IF key \in DOMAIN data.wells THEN data.wells[key] ELSE PyNone

\* the checks of the two loops in the order the loops make them:
\* <<i, 0, 0>> row header i, <<i, j, 1>> column header j while in row i,
\* <<i, j, 2>> the absorbance of cell (i, j)
Faults(wp) ==
    {<<i, 0, 0>> : i \in {k \in 1..WELLPLATE_ROWS :
                            ~validate_row_char(wp.row_hdr[k])[1]}}
    \cup {<<i, j, 1>> : i \in 1..WELLPLATE_ROWS,
                        j \in {k \in 1..WELLPLATE_COLS :
                                ~validate_col_num(wp.col_hdr[k])[1]}}
    \cup {<<c[1], c[2], 2>> : c \in {d \in DOMAIN wp.cells :
                                ~(wp.cells[d].t \in {"None", "number"})}}

Earlier(a, b) ==
    \/ a[1] < b[1]
    \/ a[1] = b[1] /\ a[2] < b[2]
    \/ a[1] = b[1] /\ a[2] = b[2] /\ a[3] < b[3]

FirstFault(wp) ==
    CHOOSE a \in Faults(wp) : \A b \in Faults(wp) : a = b \/ Earlier(a, b)

FaultMessage(wp, a) ==
    IF a[3] = 0 THEN validate_row_char(wp.row_hdr[a[1]])[2]
    ELSE IF a[3] = 1 THEN validate_col_num(wp.col_hdr[a[2]])[2]
    ELSE validate_absorbance(cell_value(wp, a[1], a[2]),
                             validate_row_char(wp.row_hdr[a[1]])[2],
                             int(validate_col_num(wp.col_hdr[a[2]])[2]))[2]

\* wellplate_data[(row_char, col_num)] = absorbance over all cells: a later
\* cell with the same key overwrites an earlier one
BuildData(wp) ==
    LET row_chars == [i \in 1..WELLPLATE_ROWS |->
                          validate_row_char(wp.row_hdr[i])[2]] @@ <<>>
        col_nums == [j \in 1..WELLPLATE_COLS |->
                         validate_col_num(wp.col_hdr[j])[2]] @@ <<>>
        row_char(i) == row_chars[i]
        col_num(j) == col_nums[j]
        last_row(rc) == SeqMax({i \in 1..WELLPLATE_ROWS : row_char(i) = rc})
        last_col(cn) == SeqMax({j \in 1..WELLPLATE_COLS : col_num(j) = cn})
        final(key) == cell_value(wp, last_row(key[1]), last_col(key[2]))
        keys == {<<row_char(c[1]), col_num(c[2])>> : c \in DOMAIN wp.cells}
    IN  [row_chars |-> {row_char(i) : i \in 1..WELLPLATE_ROWS},
         col_nums |-> {col_num(j) : j \in 1..WELLPLATE_COLS},
         wells |-> [key \in {k \in keys : final(k).t # "None"} |-> final(key)]]

\* the cells the pre-check counts: isinstance(absorbance, (int, float)) in
\* the DORA script, the truth value of absorbance in the EPD script
counts_as_realized(absorbance) ==
    IF script = "DORA" THEN is_number(absorbance) ELSE truthy(absorbance)

realized_total_of(wp) ==
    Cardinality({c \in DOMAIN wp.cells : counts_as_realized(wp.cells[c])})

required_total_of(gs) == parallel_count_of(gs) * WELLS_IN_A_PARALLEL

CountMismatch(text, realized_total, required_total) ==
    [kind |-> "count_mismatch", text |-> text,
     realized_total |-> realized_total, required_total |-> required_total]

\* a plausible slip: only a shortage of readings is refused
get_wellplate_data_shortage_only(wp, gs) ==
    IF Faults(wp) # {}
    THEN [error |-> FaultMessage(wp, FirstFault(wp)), data |-> NoData]
    ELSE IF realized_total_of(wp) < required_total_of(gs)
         THEN [error |-> CountMismatch("Excess data provided",
                             realized_total_of(wp), required_total_of(gs)),
               data |-> NoData]
         ELSE [error |-> NoError, data |-> BuildData(wp)]

\* a plausible slip: the two totals are never compared
get_wellplate_data_no_precheck(wp, gs) ==
    IF Faults(wp) # {}
    THEN [error |-> FaultMessage(wp, FirstFault(wp)), data |-> NoData]
    ELSE [error |-> NoError, data |-> BuildData(wp)]

\* a plausible slip: the totals are compared before the cells are validated
get_wellplate_data_counts_first(wp, gs) ==
    LET required_total == required_total_of(gs)
        realized_total == realized_total_of(wp)
    IN  IF realized_total < required_total
        THEN [error |-> CountMismatch("Excess data provided",
                            realized_total, required_total),
              data |-> NoData]
        ELSE IF required_total < realized_total
             THEN [error |-> CountMismatch("Insufficient data provided",
                                 realized_total, required_total),
                   data |-> NoData]
             ELSE IF Faults(wp) # {}
                  THEN [error |-> FaultMessage(wp, FirstFault(wp)),
                        data |-> NoData]
                  ELSE [error |-> NoError, data |-> BuildData(wp)]

\* the result of get_wellplate_data: the error it exits by, or the mapping
get_wellplate_data(wp, gs) ==
    LET required_total == required_total_of(gs)
        realized_total == realized_total_of(wp)
    IN  IF Faults(wp) # {}
        THEN [error |-> FaultMessage(wp, FirstFault(wp)), data |-> NoData]
        ELSE IF realized_total < required_total
             THEN [error |-> CountMismatch("Excess data provided",
                                 realized_total, required_total),
                   data |-> NoData]
             ELSE IF required_total < realized_total
                  THEN [error |-> CountMismatch("Insufficient data provided",
                                      realized_total, required_total),
                        data |-> NoData]
                  ELSE [error |-> NoError, data |-> BuildData(wp)]

\* a plausible slip: the count mismatch is reported but the run goes on
ExtractWellplateData_goes_on ==
    /\ pc = "extract"
    /\ LET got == get_wellplate_data(wellplate, groups)
       IN  IF got.error = NoError
           THEN /\ wellplate_data' = got.data
                /\ pc' = "integrate"
                /\ UNCHANGED error
           ELSE IF got.error.kind = "count_mismatch"
           THEN /\ error' = got.error
                /\ wellplate_data' = BuildData(wellplate)
                /\ pc' = "integrate"
           ELSE /\ error' = got.error
                /\ pc' = "failed"
                /\ UNCHANGED wellplate_data
    /\ UNCHANGED <<script, groups, wellplate, current_key, cursor, well_nbr,
                   walk_prev, visited,
                   data_file>>
    /\ UNCHANGED locVars
    /\ UNCHANGED sigVars
    /\ UNCHANGED statVars
    /\ UNCHANGED fitVars
    /\ UNCHANGED dilVars

\* extract_wellplate_data, on the region extract_wellplate cut out
ExtractWellplateData ==
    /\ pc = "extract"
    /\ LET got == get_wellplate_data(wellplate, groups)
       IN  IF got.error # NoError
           THEN /\ error' = got.error
                /\ pc' = "failed"
                /\ UNCHANGED wellplate_data
           ELSE /\ wellplate_data' = got.data
                /\ pc' = "integrate"
                /\ UNCHANGED error
    /\ UNCHANGED <<script, groups, wellplate, current_key, cursor, well_nbr,
                   walk_prev, visited,
                   data_file>>
    /\ UNCHANGED locVars
    /\ UNCHANGED sigVars
    /\ UNCHANGED statVars
    /\ UNCHANGED fitVars
    /\ UNCHANGED dilVars

(***************************************************************************)
(* get_first_key                                                           *)
(***************************************************************************)
\* n passes of the loop from key: <<the key returned, or NoKey if none was,
\* the key the n passes end on>>
RECURSIVE first_key_passes(_, _, _)
first_key_passes(data, key, n) ==
    IF n = 0 THEN <<NoKey, key>>
    ELSE IF dict_get(data, key).t # "None" THEN <<key, key>>
    ELSE first_key_passes(data, get_next_key(key), n - 1)

\* for _ in range(remaining): the passes are taken a segment row at a time
RECURSIVE first_key_loop(_, _, _)
first_key_loop(data, key, remaining) ==
    IF remaining = 0 THEN NoKey
    ELSE LET n == IF remaining < WELLS_IN_A_PARALLEL THEN remaining
                  ELSE WELLS_IN_A_PARALLEL
             passed == first_key_passes(data, key, n)
         IN  IF passed[1] # NoKey THEN passed[1]
             ELSE first_key_loop(data, passed[2], remaining - n)

get_first_key(data) ==
    first_key_loop(data, <<"A", "01">>, WELLPLATE_ROWS * WELLPLATE_COLS)

(***************************************************************************)
(* integrate_wellplate_data: the three nested for loops are the cursor     *)
(* <<group, sample, parallel>>, one step is one pass of the innermost      *)
(* loop (while not parallel.is_filled() in DORA, for well_nbr in EPD).     *)
(***************************************************************************)
Done == <<0, 0, 0>>

NextCursor(gs, cur) ==
    IF cur[3] < Len(gs[cur[1]].samples[cur[2]].parallels)
    THEN <<cur[1], cur[2], cur[3] + 1>>
    ELSE IF cur[2] < Len(gs[cur[1]].samples) THEN <<cur[1], cur[2] + 1, 1>>
    ELSE IF cur[1] < Len(gs) THEN <<cur[1] + 1, 1, 1>>
    ELSE Done

ParallelAt(gs, cur) == gs[cur[1]].samples[cur[2]].parallels[cur[3]]

NotEnoughData(gs, cur) ==
    IF script = "DORA"
    THEN [kind |-> "not_enough_data",
          group |-> <<"Group", gs[cur[1]].ordinal>>,
          sample |-> gs[cur[1]].samples[cur[2]].label]
    ELSE [kind |-> "not_enough_data",
          group |-> <<gs[cur[1]].title, gs[cur[1]].ordinal>>,
          sample |-> gs[cur[1]].samples[cur[2]].tube_label]

\* a plausible slip: the viral control is taken from the third value
assign_well_early_vir_ctrl(parallel, absorbance, key) ==
    LET next_well_nbr == get_filled_well_count(parallel)
        well == Well(absorbance, key[1], key[2])
    IN  IF next_well_nbr = 0 THEN [parallel EXCEPT !.negative_control_1 = well]
        ELSE IF next_well_nbr = 1 THEN [parallel EXCEPT !.negative_control_2 = well]
        ELSE IF next_well_nbr = 2 THEN [parallel EXCEPT !.viral_control = well]
        ELSE [parallel EXCEPT !.virals = Append(@, well)]

\* DORA: the slot the next numeric value goes to
assign_well(parallel, absorbance, key) ==
    LET next_well_nbr == get_filled_well_count(parallel)
        well == Well(absorbance, key[1], key[2])
    IN  IF next_well_nbr = 0 THEN [parallel EXCEPT !.negative_control_1 = well]
        ELSE IF next_well_nbr = 1 THEN [parallel EXCEPT !.negative_control_2 = well]
        ELSE IF next_well_nbr = 11 THEN [parallel EXCEPT !.viral_control = well]
        ELSE [parallel EXCEPT !.virals = Append(@, well)]

\* EPD: the list the cell at position nbr of the parallel goes to
epd_assign_well(parallel, nbr, absorbance, key) ==
    IF nbr < 2
    THEN [parallel EXCEPT !.controls = Append(@, Well(absorbance, key[1], key[2]))]
    ELSE [parallel EXCEPT !.virals = Append(@, Well(absorbance, key[1], key[2]))]

\* a plausible slip: an empty cell is handed to the parallel like a reading
skips_cell_never(absorbance) == FALSE

\* DORA: if not isinstance(absorbance, (int, float)): next key and continue
skips_cell(absorbance) == ~is_number(absorbance)

IntegrateStart ==
    /\ pc = "integrate"
    /\ LET first_key == get_first_key(wellplate_data)
       IN  IF first_key = NoKey
           THEN /\ error' = [kind |-> "no_absorbance_values"]
                /\ pc' = "failed"
                /\ UNCHANGED <<current_key, cursor, well_nbr>>
           ELSE /\ current_key' = first_key
                /\ cursor' = <<1, 1, 1>>
                /\ well_nbr' = 0
                /\ pc' = "integrating"
                /\ UNCHANGED error
    /\ UNCHANGED <<script, groups, wellplate, wellplate_data, walk_prev, visited,
                   data_file>>
    /\ UNCHANGED locVars
    /\ UNCHANGED sigVars
    /\ UNCHANGED statVars
    /\ UNCHANGED fitVars
    /\ UNCHANGED dilVars

DoraStep ==
    LET parallel == ParallelAt(groups, cursor)
        filled == assign_well(parallel, dict_get(wellplate_data, current_key),
                              current_key)
    IN  IF current_key = NoKey
        THEN /\ error' = NotEnoughData(groups, cursor)
             /\ pc' = "failed"
             /\ UNCHANGED <<groups, current_key, cursor>>
        ELSE IF ~has_key(wellplate_data, current_key)
        THEN /\ error' = [kind |-> "key_missing", key |-> current_key]
             /\ pc' = "failed"
             /\ UNCHANGED <<groups, current_key, cursor>>
        ELSE IF skips_cell(dict_get(wellplate_data, current_key))
        THEN /\ current_key' = get_next_key(current_key)
             /\ UNCHANGED <<groups, cursor, pc, error>>
        ELSE /\ groups' = [groups EXCEPT
                    ![cursor[1]].samples[cursor[2]].parallels[cursor[3]] = filled]
             /\ current_key' = get_next_key(current_key)
             /\ cursor' = IF is_filled(filled) THEN NextCursor(groups, cursor)
                          ELSE cursor
             /\ UNCHANGED <<pc, error>>

EpdStep ==
    LET parallel == ParallelAt(groups, cursor)
        added == epd_assign_well(parallel, well_nbr,
                     dict_get(wellplate_data, current_key), current_key)
    IN  IF current_key = NoKey
        THEN /\ error' = NotEnoughData(groups, cursor)
             /\ pc' = "failed"
             /\ UNCHANGED <<groups, current_key, cursor, well_nbr>>
        ELSE IF ~has_key(wellplate_data, current_key)
        THEN /\ error' = [kind |-> "key_missing", key |-> current_key]
             /\ pc' = "failed"
             /\ UNCHANGED <<groups, current_key, cursor, well_nbr>>
        ELSE /\ groups' = [groups EXCEPT
                    ![cursor[1]].samples[cursor[2]].parallels[cursor[3]] = added]
             /\ current_key' = get_next_key(current_key)
             /\ well_nbr' = IF well_nbr + 1 < WELLS_IN_A_PARALLEL
                            THEN well_nbr + 1 ELSE 0
             /\ cursor' = IF well_nbr + 1 < WELLS_IN_A_PARALLEL THEN cursor
                          ELSE NextCursor(groups, cursor)
             /\ UNCHANGED <<pc, error>>

\* a plausible slip: at the end of the plate the loops are left and the
\* groups returned as they are
IntegrateStep_returns_at_end ==
    /\ pc = "integrating"
    /\ cursor # Done
    /\ IF current_key = NoKey
       THEN /\ cursor' = Done
            /\ UNCHANGED <<groups, current_key, well_nbr, pc, error>>
       ELSE IF script = "DORA" THEN DoraStep /\ UNCHANGED well_nbr ELSE EpdStep
    /\ UNCHANGED <<script, wellplate, wellplate_data, walk_prev, visited,
                   data_file>>
    /\ UNCHANGED locVars
    /\ UNCHANGED sigVars
    /\ UNCHANGED statVars
    /\ UNCHANGED fitVars
    /\ UNCHANGED dilVars

IntegrateStep ==
    /\ pc = "integrating"
    /\ cursor # Done
    /\ IF script = "DORA" THEN DoraStep /\ UNCHANGED well_nbr ELSE EpdStep
    /\ UNCHANGED <<script, wellplate, wellplate_data, walk_prev, visited,
                   data_file>>
    /\ UNCHANGED locVars
    /\ UNCHANGED sigVars
    /\ UNCHANGED statVars
    /\ UNCHANGED fitVars
    /\ UNCHANGED dilVars

\* return groups
IntegrateReturn ==
    /\ pc = "integrating"
    /\ cursor = Done
    /\ pc' = "integrated"
    /\ UNCHANGED <<script, groups, wellplate, wellplate_data, current_key,
                   cursor, well_nbr, error, walk_prev, visited,
                   data_file>>
    /\ UNCHANGED locVars
    /\ UNCHANGED sigVars
    /\ UNCHANGED statVars
    /\ UNCHANGED fitVars
    /\ UNCHANGED dilVars

(***************************************************************************)
(* statistics_to_data_file, exports_to_data_file, save_file (DORA).  The   *)
(* dilution series of a group is taken to be positive (math.log10 is       *)
(* defined on it).                                                         *)
(***************************************************************************)
\* f"{...}": an ordinal as it is written into a sheet name
ordinal_text(group) ==
    IF group.is_filler THEN str(group.ordinal) ELSE group.ordinal

PLATE_STATISTICS == <<"plate", "STATISTICS">>

GroupStatistics(group) == <<"group", ordinal_text(group), "STATISTICS">>

GROUP_EXPORT == <<"group", "EXPORT">>

\* create_or_clear_sheet: a sheet of that name is deleted, a new one is
\* created at the end, or moved to index position when one is given
create_or_clear_sheet(sheets, sheet_name, position) ==
    LET kept == SelectSeq(sheets, LAMBDA sh : sh # sheet_name)
    IN  IF position = 0 \/ position > Len(kept) THEN Append(kept, sheet_name)
        ELSE SubSeq(kept, 1, position) \o <<sheet_name>>
                 \o SubSeq(kept, position + 1, Len(kept))

\* Group.get_all_neg_ctrls / get_all_vir_ctrls: the values of the wells
all_neg_ctrls(group) ==
    Flatten([k \in DOMAIN group.samples |->
        Flatten([n \in DOMAIN group.samples[k].parallels |->
            <<group.samples[k].parallels[n].negative_control_1.value.v,
              group.samples[k].parallels[n].negative_control_2.value.v>>])])

all_vir_ctrls(group) ==
    Flatten([k \in DOMAIN group.samples |->
        [n \in DOMAIN group.samples[k].parallels |->
            group.samples[k].parallels[n].viral_control.value.v]])

\* Group.get_normalized raises ValueError: topline (the average of the
\* negative controls) or baseline (the average of the viral controls) is
\* None, or the two are equal
get_normalized_raises(group) ==
    LET negs == all_neg_ctrls(group)
        virs == all_vir_ctrls(group)
    IN  \/ negs = <<>>
        \/ virs = <<>>
        \/ SeqSum(negs) * Len(virs) = SeqSum(virs) * Len(negs)

Uncaught(exception) == [kind |-> "uncaught", exception |-> exception]

\* the groups a loop over groups reaches before get_normalized raises:
\* <<index of the group it raises in, or 0; the groups processed>>
\* a plausible slip: the filler groups are analysed like the others
is_skipped_never(group) == FALSE

\* if group.is_filler: continue
is_skipped(group) == group.is_filler

RECURSIVE analysed_until_raise(_, _)
analysed_until_raise(gs, g) ==
    IF g > Len(gs) THEN <<0, <<>>>>
    ELSE IF is_skipped(gs[g]) THEN analysed_until_raise(gs, g + 1)
    ELSE IF get_normalized_raises(gs[g]) THEN <<g, <<g>>>>
    ELSE LET rest == analysed_until_raise(gs, g + 1)
         IN  <<rest[1], <<g>> \o rest[2]>>

RECURSIVE create_group_sheets(_, _, _)
create_group_sheets(sheets, gs, reached) ==
    IF reached = <<>> THEN sheets
    ELSE create_group_sheets(
             create_or_clear_sheet(sheets, GroupStatistics(gs[Head(reached)]), 0),
             gs, Tail(reached))

\* statistics_to_data_file: the plate sheet, then one sheet for each group
\* that is not a filler; a group get_normalized raises in ends the run
StatisticsToDataFile ==
    /\ pc = "integrated"
    /\ script = "DORA"
    /\ LET reached == analysed_until_raise(groups, 1)
           plate == create_or_clear_sheet(data_file.sheets, PLATE_STATISTICS, 0)
       IN  /\ data_file' = [data_file EXCEPT
                   !.sheets = create_group_sheets(plate, groups, reached[2])]
           /\ IF reached[1] = 0
              THEN pc' = "statistics_done" /\ UNCHANGED error
              ELSE pc' = "crashed" /\ error' = Uncaught("ValueError")
    /\ UNCHANGED <<script, groups, wellplate, wellplate_data, current_key,
                   cursor, well_nbr, walk_prev, visited>>
    /\ UNCHANGED locVars
    /\ UNCHANGED sigVars
    /\ UNCHANGED statVars
    /\ UNCHANGED fitVars
    /\ UNCHANGED dilVars

\* exports_to_data_file: the export sheet, then the rows of each group that
\* is not a filler
ExportsToDataFile ==
    /\ pc = "statistics_done"
    /\ LET reached == analysed_until_raise(groups, 1)
           written == IF reached[1] = 0 THEN reached[2]
                      ELSE SubSeq(reached[2], 1, Len(reached[2]) - 1)
       IN  /\ data_file' =
                 [sheets |-> create_or_clear_sheet(data_file.sheets, GROUP_EXPORT, 1),
                  export_rows |-> [k \in DOMAIN written |->
                                      ordinal_text(groups[written[k]])]]
           /\ IF reached[1] = 0
              THEN pc' = "exported" /\ UNCHANGED error
              ELSE pc' = "crashed" /\ error' = Uncaught("ValueError")
    /\ UNCHANGED <<script, groups, wellplate, wellplate_data, current_key,
                   cursor, well_nbr, walk_prev, visited>>
    /\ UNCHANGED locVars
    /\ UNCHANGED sigVars
    /\ UNCHANGED statVars
    /\ UNCHANGED fitVars
    /\ UNCHANGED dilVars

\* a plausible slip: the workbook is saved whatever came before
SaveFile_after_failure ==
    /\ pc \in {"exported", "failed"}
    /\ pc' = "saved"
    /\ UNCHANGED <<script, groups, wellplate, wellplate_data, current_key,
                   cursor, well_nbr, walk_prev, visited, data_file, error>>
    /\ UNCHANGED locVars
    /\ UNCHANGED sigVars
    /\ UNCHANGED statVars
    /\ UNCHANGED fitVars
    /\ UNCHANGED dilVars

\* save_file: file.save, or the exit by the PermissionError of a file that
\* is open elsewhere
SaveFile ==
    /\ pc = "exported"
    /\ \E permitted \in BOOLEAN :
          IF permitted
          THEN pc' = "saved" /\ UNCHANGED error
          ELSE pc' = "failed" /\ error' = [kind |-> "unable_to_save"]
    /\ UNCHANGED <<script, groups, wellplate, wellplate_data, current_key,
                   cursor, well_nbr, walk_prev, visited, data_file>>
    /\ UNCHANGED locVars
    /\ UNCHANGED sigVars
    /\ UNCHANGED statVars
    /\ UNCHANGED fitVars
    /\ UNCHANGED dilVars

(***************************************************************************)
(* Locating the wellplate of a data sheet (384-well scripts).  A sheet is  *)
(* kept as its first two columns: col1[r] and col2[r] are the values of    *)
(* the cells in row r.                                                     *)
(***************************************************************************)
\* the rows of the sheets searched: a title row, then room for two regions
\* of a column-header row and WELLPLATE_ROWS rows each
SheetRows == 2 * (WELLPLATE_ROWS + 1) + 1

\* the rows where a sheet may hold the corner of a region
CornerRows == {2, 2 + WELLPLATE_ROWS + 1}

\* what the corner cell, the first row label and the first column label of
\* a region may hold
CornerValues == {PyNone, PyNum(0), PyStr("x")}

RowLabelValues == {PyNone, PyStr("A"), PyStr("a"), PyStr("B")}

ColLabelValues == {PyNone, PyNum(1), PyStr("1"), PyStr("01"), PyNum(2)}

\* what the first cell of the title row may hold
TitleValues == {PyNone, PyStr("A"), PyStr("a")}

Corners == [corner : CornerValues, row_label : RowLabelValues,
            col_label : ColLabelValues]

\* the sheet with the given title cell and a corner at each of CornerRows
Sheet(title_cell, corners) ==
    [title   |-> "data",
     max_row |-> SheetRows,
     col1    |-> [r \in 1..SheetRows |->
                    IF r = 1 THEN title_cell
                    ELSE IF r \in CornerRows THEN corners[r].corner
                    ELSE IF (r - 1) \in CornerRows THEN corners[r - 1].row_label
                    ELSE PyNone] @@ <<>>,
     col2    |-> [r \in 1..SheetRows |->
                    IF r \in CornerRows THEN corners[r].col_label
                    ELSE PyNone] @@ <<>>]

Sheets == {Sheet(title_cell, corners) :
             title_cell \in TitleValues, corners \in [CornerRows -> Corners]}

validate_start_row_char(row_char) ==
    LET result == validate_row_char(row_char)
    IN  IF ~result[1] THEN result
        ELSE IF result[2] = "A" THEN result
        ELSE <<FALSE, [kind |-> "start_row_char_invalid", row_char |-> row_char]>>

validate_start_col_num(col_num) ==
    LET result == validate_col_num(col_num)
    IN  IF ~result[1] THEN result
        ELSE IF result[2] = "01" THEN result
        ELSE <<FALSE, [kind |-> "start_col_num_invalid", col_num |-> col_num]>>

\* the results of find_wellplate_start: it returns, or exit_by_error ends
\* the program, or an exception leaves it
Returned(start_row, start_col) ==
    [kind |-> "return", start_row |-> start_row, start_col |-> start_col]

CouldNotLocate(title) == [kind |-> "could_not_locate", sheet |-> title]

\* cell_value == 'A'
equals_A(value) == value.t = "str" /\ value.v = "A"

START_COL == 1

\* the loop of find_wellplate_start from the given row on; sheet.cell
\* raises ValueError for a row below 1
RECURSIVE find_wellplate_start_from(_, _)
find_wellplate_start_from(sh, row) ==
    IF row > sh.max_row THEN CouldNotLocate(sh.title)
    ELSE IF ~equals_A(sh.col1[row])
         THEN find_wellplate_start_from(sh, row + 1)
    ELSE LET start_row == row - 1
         IN  IF ~validate_start_row_char(sh.col1[start_row + 1])[1]
             THEN find_wellplate_start_from(sh, row + 1)
             ELSE IF start_row < 1 THEN Uncaught("ValueError")
             ELSE IF ~validate_start_col_num(sh.col2[start_row])[1]
             THEN find_wellplate_start_from(sh, row + 1)
             ELSE IF truthy(sh.col1[start_row])
             THEN find_wellplate_start_from(sh, row + 1)
             ELSE Returned(start_row, START_COL)

find_wellplate_start(sh) == find_wellplate_start_from(sh, 1)

\* extract_wellplate_data up to the extraction of the region: the one call
\* of find_wellplate_start
LocateWellplate ==
    /\ pc = "locate"
    /\ LET result == find_wellplate_start(sheet)
       IN  CASE result.kind = "return" ->
                    /\ found' = Append(found, result)
                    /\ pc' = "located"
                    /\ UNCHANGED error
             [] result.kind = "could_not_locate" ->
                    /\ pc' = "failed"
                    /\ error' = result
                    /\ UNCHANGED found
             [] OTHER ->
                    /\ pc' = "crashed"
                    /\ error' = result
                    /\ UNCHANGED found
    /\ UNCHANGED <<script, groups, wellplate, wellplate_data, current_key,
                   cursor, well_nbr, walk_prev, visited, data_file, sheet,
                   next_row>>
    /\ UNCHANGED sigVars
    /\ UNCHANGED statVars
    /\ UNCHANGED fitVars
    /\ UNCHANGED dilVars

(***************************************************************************)
(* Locating the wellplates of a data sheet (96-well extractor).  A sheet   *)
(* is kept as the kind of each of its rows and the number of columns its   *)
(* content is shifted to the right.                                        *)
(***************************************************************************)
EXTRACT_WELLPLATE_ROWS == 8

EXTRACT_WELLPLATE_COLS == 12

FIND_START_COL == 1

END_COL == 5

VALID_ROW_THRESHOLD == 4

\* the rows of the sheets searched: one more than find_wellplate counts over
ExtractSheetRows == EXTRACT_WELLPLATE_ROWS + 1

\* a row is empty, holds 12 numbers, or holds 11 numbers and a text
RowKinds == {"empty", "full", "short"}

\* the content of a sheet starts in column 1 or in column 3
ShiftValues == {0, 2}

\* the sheets searched: at most one of their rows is a short one
ExtractSheets ==
    {sh \in [title : {"data"}, max_row : {ExtractSheetRows},
             rows : [1..ExtractSheetRows -> RowKinds],
             shift : ShiftValues] :
        Cardinality({r \in 1..ExtractSheetRows : sh.rows[r] = "short"}) <= 1}

\* sheet.cell(row=row, column=col).value; a cell outside the content holds
\* None, the first number of a row is 0
extract_cell_value(sh, row, col) ==
    LET c == col - sh.shift
    IN  IF row > sh.max_row \/ c < 1 \/ c > WELLS_IN_A_PARALLEL
             \/ sh.rows[row] = "empty"
        THEN PyNone
        ELSE IF sh.rows[row] = "short" /\ c = WELLS_IN_A_PARALLEL
        THEN PyStr("n/a")
        ELSE PyNum(c - 1)

\* validate_absorbance of the extractor: isinstance(absorbance, (int, float))
extract_validate_absorbance(absorbance) == is_number(absorbance)

validate_parallel(sh, row, first_col) ==
    \A col \in first_col..(WELLS_IN_A_PARALLEL + first_col - 1) :
        extract_validate_absorbance(extract_cell_value(sh, row, col))

\* the count of the inner loop of find_wellplate
valid_row_count_unbounded(sh, row, col) ==
    Cardinality({check_row \in row..sh.max_row :
                    validate_parallel(sh, check_row, col)})

valid_row_count(sh, row, col) ==
    Cardinality({check_row \in row..(EXTRACT_WELLPLATE_ROWS + row - 1) :
                    validate_parallel(sh, check_row, col)})

NoWellplateInfo == [kind |-> "None"]

WellplateInfo(row, col, count) ==
    [kind     |-> "info",
     start    |-> <<row, col>>,
     end      |-> <<row + count - 1, EXTRACT_WELLPLATE_COLS + col - 1>>,
     next_row |-> row + count]

\* the two loops of find_wellplate from the position (row, col) on
RECURSIVE find_wellplate_from(_, _, _)
find_wellplate_from(sh, row, col) ==
    IF row > sh.max_row THEN NoWellplateInfo
    ELSE IF col > END_COL THEN find_wellplate_from(sh, row + 1, FIND_START_COL)
    ELSE IF ~extract_validate_absorbance(extract_cell_value(sh, row, col))
         THEN find_wellplate_from(sh, row, col + 1)
    ELSE LET count == valid_row_count(sh, row, col)
         IN  IF count < VALID_ROW_THRESHOLD
             THEN find_wellplate_from(sh, row, col + 1)
             ELSE WellplateInfo(row, col, count)

find_wellplate(sh, start_row) == find_wellplate_from(sh, start_row, FIND_START_COL)

\* one pass of the loop of extract_wellplates, and what follows the loop
\* when it is left
FindWellplate ==
    /\ pc = "find"
    /\ \E wellplate_info \in {find_wellplate(sheet, next_row)} :
           IF wellplate_info = NoWellplateInfo
           THEN /\ IF Len(found) < 1
                   THEN /\ pc' = "failed"
                        /\ error' = [kind |-> "could_not_locate_any",
                                     sheet |-> sheet.title]
                   ELSE /\ pc' = "extracted"
                        /\ UNCHANGED error
                /\ UNCHANGED <<found, next_row>>
           ELSE /\ found' = Append(found, wellplate_info)
                /\ next_row' = wellplate_info.next_row
                /\ UNCHANGED <<pc, error>>
    /\ UNCHANGED <<script, groups, wellplate, wellplate_data, current_key,
                   cursor, well_nbr, walk_prev, visited, data_file, sheet>>
    /\ UNCHANGED sigVars
    /\ UNCHANGED statVars
    /\ UNCHANGED fitVars
    /\ UNCHANGED dilVars

(***************************************************************************)
(* KeyboardInterrupt.  Every handler of it, those of the print and prompt  *)
(* functions and the one of __main__, calls exit_by_interruption.          *)
(***************************************************************************)
MaxInterrupts == 2

\* the run has not ended
Running == pc \notin {"failed", "crashed", "saved", "stopped"}

\* a plausible slip: a handler that catches the interrupt and goes on
Interrupt_swallowed ==
    /\ Running
    /\ pc # "interrupted"
    /\ interrupts < MaxInterrupts
    /\ interrupts' = interrupts + 1
    /\ UNCHANGED <<script, pc, groups, wellplate, wellplate_data, current_key,
                   cursor, well_nbr, error, walk_prev, visited, data_file,
                   stop_status>>
    /\ UNCHANGED locVars
    /\ UNCHANGED statVars
    /\ UNCHANGED fitVars
    /\ UNCHANGED dilVars

\* a KeyboardInterrupt is raised and caught: exit_by_interruption is entered,
\* or entered anew if the interrupt came while it was printing
Interrupt ==
    /\ Running
    /\ interrupts < MaxInterrupts
    /\ interrupts' = interrupts + 1
    /\ pc' = "interrupted"
    /\ UNCHANGED <<script, groups, wellplate, wellplate_data, current_key,
                   cursor, well_nbr, error, walk_prev, visited, data_file,
                   stop_status>>
    /\ UNCHANGED locVars
    /\ UNCHANGED statVars
    /\ UNCHANGED fitVars
    /\ UNCHANGED dilVars

\* exit_by_interruption prints the status and exits
ExitByInterruption ==
    /\ pc = "interrupted"
    /\ stop_status' = "Stopped"
    /\ pc' = "stopped"
    /\ UNCHANGED <<script, groups, wellplate, wellplate_data, current_key,
                   cursor, well_nbr, error, walk_prev, visited, data_file,
                   interrupts>>
    /\ UNCHANGED locVars
    /\ UNCHANGED statVars
    /\ UNCHANGED fitVars
    /\ UNCHANGED dilVars

(***************************************************************************)
(* The significance symbols of the statistics script.  A p-value is kept   *)
(* as a whole number of hundred-thousandths.                               *)
(***************************************************************************)
\* a threshold of the list, and float('inf')
Threshold(v) == [inf |-> FALSE, v |-> v]

INF == [inf |-> TRUE, v |-> 0]

\* p_value <= threshold
le_threshold(p, threshold) == threshold.inf \/ p <= threshold.v

lt_threshold(p, threshold) == threshold.inf \/ p < threshold.v

SIGNIFICANCE_LEVELS == <<
    <<Threshold(10), "****">>,
    <<Threshold(100), "***">>,
    <<Threshold(1000), "**">>,
    <<Threshold(5000), "*">>,
    <<INF, "ns">> >>

\* no symbol returned yet; and the None of a loop that ends without return
NoSymbol == "?"

NoneSymbol == "None"

\* the loop of get_significance_symbol from pair i of the list on; the
\* test of a pair is p_value <= threshold when inclusive
RECURSIVE significance_from(_, _, _)
significance_from(inclusive, p, i) ==
    IF i > Len(SIGNIFICANCE_LEVELS) THEN NoneSymbol
    ELSE IF IF inclusive THEN le_threshold(p, SIGNIFICANCE_LEVELS[i][1])
            ELSE lt_threshold(p, SIGNIFICANCE_LEVELS[i][1])
         THEN SIGNIFICANCE_LEVELS[i][2]
         ELSE significance_from(inclusive, p, i + 1)

\* a plausible slip: the thresholds are exclusive
get_significance_symbol_exclusive(p) == significance_from(FALSE, p, 1)

get_significance_symbol(p) == significance_from(TRUE, p, 1)

\* the p-values tried: 0, the values around each threshold, 1
PValues ==
    (0..120) \cup (990..1010) \cup (4990..5010) \cup {50000, 100000}

\* a test result gets its symbol
SignificanceSymbol ==
    /\ pc = "test"
    /\ symbol' = get_significance_symbol(p_value)
    /\ pc' = "symbol"
    /\ UNCHANGED <<script, error, p_value>>
    /\ UNCHANGED mainVars
    /\ UNCHANGED locVars
    /\ UNCHANGED sigVars
    /\ UNCHANGED fitVars
    /\ UNCHANGED dilVars

\* the variables outside the significance symbols, when nothing else runs
IdleBut(the_script, the_pc) ==
    /\ script = the_script
    /\ pc = the_pc
    /\ groups = <<>>
    /\ wellplate = NoWellplate
    /\ wellplate_data = NoData
    /\ current_key = NoKey
    /\ cursor = <<1, 1, 1>>
    /\ well_nbr = 0
    /\ error = NoError
    /\ walk_prev = NoKey
    /\ visited = {}
    /\ data_file = NewDataFile
    /\ sheet = NoSheet
    /\ found = <<>>
    /\ next_row = 1
    /\ interrupts = 0
    /\ stop_status = ""

InitSignificance ==
    /\ IdleBut("STAT", "test")
    /\ p_value \in PValues
    /\ symbol = NoSymbol
    /\ fit_samples = <<>>
    /\ fit_results = <<>>
    /\ dil_series = <<>>
    /\ dil_calls = <<>>

NextSignificance == SignificanceSymbol

SpecSignificance == InitSignificance /\ [][NextSignificance]_vars

(***************************************************************************)
(* fit_group of the 4PL script.  What curve_fit does on a sample is an     *)
(* input: it converges; it returns with a covariance it could not          *)
(* estimate (OptimizeWarning, the covariance filled with inf); the power   *)
(* term overflows (RuntimeWarning, inf); it returns extreme parameters; or *)
(* it does not converge within maxfev calls (RuntimeError).                *)
(***************************************************************************)
MaxFitSamples == 3

FitOutcomes == {"converged", "ill_conditioned", "overflow", "extreme",
                "not_converged"}

\* a plausible slip: warnings are turned into errors
fit_raises_on_warning(outcome) ==
    outcome \in {"not_converged", "ill_conditioned", "overflow"}

\* curve_fit raises: the warnings are filtered, the RuntimeError is not
fit_raises(outcome) == outcome = "not_converged"

\* the entry of results for a sample: the confidence interval is undefined
\* when the covariance is not finite, 10 ** log_result is inf or 0 when the
\* parameters are extreme
fit_entry(sample, outcome) ==
    [sample |-> sample,
     ci     |-> IF outcome = "ill_conditioned" THEN "undefined" ELSE "finite",
     result |-> IF outcome \in {"overflow", "extreme"} THEN "inf_or_zero"
                ELSE "finite"]

\* one pass of the loop of fit_group
FitSample ==
    /\ pc = "fit"
    /\ Len(fit_results) < Len(fit_samples)
    /\ LET sample == Len(fit_results) + 1
           outcome == fit_samples[sample]
       IN  IF fit_raises(outcome)
           THEN /\ pc' = "crashed"
                /\ error' = Uncaught("RuntimeError")
                /\ UNCHANGED fit_results
           ELSE /\ fit_results' = Append(fit_results, fit_entry(sample, outcome))
                /\ UNCHANGED <<pc, error>>
    /\ UNCHANGED <<script, fit_samples>>
    /\ UNCHANGED mainVars
    /\ UNCHANGED locVars
    /\ UNCHANGED sigVars
    /\ UNCHANGED statVars
    /\ UNCHANGED dilVars

\* fit_group returns results
FitReturn ==
    /\ pc = "fit"
    /\ Len(fit_results) = Len(fit_samples)
    /\ pc' = "fitted"
    /\ UNCHANGED <<script, error>>
    /\ UNCHANGED mainVars
    /\ UNCHANGED locVars
    /\ UNCHANGED sigVars
    /\ UNCHANGED statVars
    /\ UNCHANGED fitVars
    /\ UNCHANGED dilVars

InitFit ==
    /\ IdleBut("4PL", "fit")
    /\ p_value = 0
    /\ symbol = NoSymbol
    /\ fit_samples \in UNION {[1..n -> FitOutcomes] : n \in 1..MaxFitSamples}
    /\ fit_results = <<>>
    /\ dil_series = <<>>
    /\ dil_calls = <<>>

NextFit ==
    \/ FitSample
    \/ FitReturn

SpecFit == InitFit /\ [][NextFit]_vars

(***************************************************************************)
(* Group.set_dil_series.  A dilution is kept as a fraction <<n, d>> with   *)
(* d > 0, so that the divisions are exact.                                 *)
(***************************************************************************)
MaxDilCalls == 2

Rat(n, d) == <<n, d>>

\* a * k and a / k for a whole number k, k > 0 in the division
rat_times(a, k) == Rat(a[1] * k, a[2])

rat_over(a, k) == Rat(a[1], a[2] * k)

rat_eq(a, b) == a[1] * b[2] = b[1] * a[2]

rat_less(a, b) == a[1] * b[2] < b[1] * a[2]

abs(k) == IF k < 0 THEN 0 - k ELSE k

\* what validate_float and validate_integer let through: any number, any
\* whole number
InitDils == {Rat(0 - 2, 1), Rat(0, 1), Rat(1, 2), Rat(1, 1), Rat(10, 1),
             Rat(1000, 1)}

DilFactors == (0 - 4)..4

\* n passes of the loop of set_dil_series
RECURSIVE dil_passes(_, _, _)
dil_passes(series, dil_factor, n) ==
    IF n = 0 THEN series
    ELSE LET next_value == IF dil_factor < 0
                           THEN rat_over(series[Len(series)], abs(dil_factor))
                           ELSE rat_times(series[Len(series)], dil_factor)
         IN  dil_passes(Append(series, next_value), dil_factor, n - 1)

set_dil_series(init_dil, dil_factor) == dil_passes(<<init_dil>>, dil_factor, 8)

\* the group's series is set, for the first time or anew
SetDilSeries ==
    /\ pc = "dilutions"
    /\ Len(dil_calls) < MaxDilCalls
    /\ \E init_dil \in InitDils, dil_factor \in DilFactors :
        /\ dil_series' = set_dil_series(init_dil, dil_factor)
        /\ dil_calls' = Append(dil_calls, [init_dil |-> init_dil,
                                           dil_factor |-> dil_factor])
    /\ UNCHANGED <<script, pc, error>>
    /\ UNCHANGED mainVars
    /\ UNCHANGED locVars
    /\ UNCHANGED sigVars
    /\ UNCHANGED statVars
    /\ UNCHANGED fitVars

InitDilutions ==
    /\ IdleBut("DORA", "dilutions")
    /\ p_value = 0
    /\ symbol = NoSymbol
    /\ fit_samples = <<>>
    /\ fit_results = <<>>
    /\ dil_series = <<>>
    /\ dil_calls = <<>>

NextDilutions == SetDilSeries

SpecDilutions == InitDilutions /\ [][NextDilutions]_vars

(***************************************************************************)
(* One run of run_script, from the definition of the groups on.            *)
(***************************************************************************)
Init ==
    /\ script \in {"DORA", "EPD"}
    /\ pc = "define_groups"
    /\ groups = <<>>
    /\ wellplate \in Wellplates
    /\ wellplate_data = NoData
    /\ current_key = NoKey
    /\ cursor = <<1, 1, 1>>
    /\ well_nbr = 0
    /\ error = NoError
    /\ walk_prev = NoKey
    /\ visited = {}
    /\ data_file = NewDataFile
    /\ sheet = NoSheet
    /\ found = <<>>
    /\ next_row = 1
    /\ interrupts = 0
    /\ stop_status = ""
    /\ p_value = 0
    /\ symbol = NoSymbol
    /\ fit_samples = <<>>
    /\ fit_results = <<>>
    /\ dil_series = <<>>
    /\ dil_calls = <<>>

Next ==
    \/ DefineGroup
    \/ ExtractWellplateData
    \/ IntegrateStart
    \/ IntegrateStep
    \/ IntegrateReturn
    \/ StatisticsToDataFile
    \/ ExportsToDataFile
    \/ SaveFile

Spec == Init /\ [][Next]_vars

(***************************************************************************)
(* find_wellplate_start applied to a data sheet.                           *)
(***************************************************************************)
InitLocate ==
    /\ script \in {"DORA", "EPD"}
    /\ pc = "locate"
    /\ groups = <<>>
    /\ wellplate = NoWellplate
    /\ wellplate_data = NoData
    /\ current_key = NoKey
    /\ cursor = <<1, 1, 1>>
    /\ well_nbr = 0
    /\ error = NoError
    /\ walk_prev = NoKey
    /\ visited = {}
    /\ data_file = NewDataFile
    /\ sheet \in Sheets
    /\ found = <<>>
    /\ next_row = 1
    /\ interrupts = 0
    /\ stop_status = ""
    /\ p_value = 0
    /\ symbol = NoSymbol
    /\ fit_samples = <<>>
    /\ fit_results = <<>>
    /\ dil_series = <<>>
    /\ dil_calls = <<>>

NextLocate == LocateWellplate

SpecLocate == InitLocate /\ [][NextLocate]_vars

(***************************************************************************)
(* extract_wellplates of the 96-well extractor applied to a data sheet.    *)
(***************************************************************************)
InitExtract ==
    /\ script = "EXTRACT"
    /\ pc = "find"
    /\ groups = <<>>
    /\ wellplate = NoWellplate
    /\ wellplate_data = NoData
    /\ current_key = NoKey
    /\ cursor = <<1, 1, 1>>
    /\ well_nbr = 0
    /\ error = NoError
    /\ walk_prev = NoKey
    /\ visited = {}
    /\ data_file = NewDataFile
    /\ sheet \in ExtractSheets
    /\ found = <<>>
    /\ next_row = 1
    /\ interrupts = 0
    /\ stop_status = ""
    /\ p_value = 0
    /\ symbol = NoSymbol
    /\ fit_samples = <<>>
    /\ fit_results = <<>>
    /\ dil_series = <<>>
    /\ dil_calls = <<>>

NextExtract == FindWellplate

SpecExtract == InitExtract /\ [][NextExtract]_vars

(***************************************************************************)
(* Locating the groups of a sheet (4PL script, statistics script).  A      *)
(* sheet is kept as the kind of each of its rows and the number of columns *)
(* its content is shifted to the right; it is made of pieces laid one      *)
(* under the other.  A cell that was not loaded holds None when read.      *)
(***************************************************************************)
\* pieces a sheet is made of
MaxPieces == 3

VALUES_IN_A_SAMPLE == 9

GROUP_START_COL == 1

GROUP_END_COL == 5

\* the texts that cells hold, and what the validators find in them
GroupTitles == {"Group A", "group B"}

\* float(str(value).replace(',', '.')) succeeds on the text
FloatTexts == {"0,5"}

\* value.casefold().startswith("group")
validate_group_title(value) == value.t = "str" /\ value.v \in GroupTitles

\* "log dil" in value.casefold()
validate_log_string(value) == value.t = "str" /\ value.v = "Log dil"

\* "sample" in value.casefold()
validate_sample_string(value) == value.t = "str" /\ value.v = "Sample"

validate_float(value) ==
    \/ value.t = "number"
    \/ value.t = "str" /\ value.v \in FloatTexts

\* validate_sample_label, validate_result_string: a text that is not blank,
\* or a float
validate_text_or_float(value) ==
    \/ value.t = "str" /\ value.v # ""
    \/ validate_float(value)

\* all the sequences of 1..n pieces, each laid under the one before
RECURSIVE Stacks(_, _)
Stacks(pieces, n) ==
    IF n = 0 THEN {<<>>}
    ELSE LET shorter == Stacks(pieces, n - 1)
         IN  shorter \cup {st \o piece : st \in shorter, piece \in pieces}

StackedSheets(pieces) ==
    {[title |-> "data", max_row |-> Len(rows), rows |-> rows, shift |-> shift] :
        rows \in Stacks(pieces, MaxPieces) \ {<<>>}, shift \in ShiftValues}

\* 4PL: a block of a group is its title, the 'Log dil' row with the sample
\* label, and 9 rows of a dilution and a value; in a short block the last
\* value is a text
FplBlock == <<"title", "log">> \o [k \in 1..VALUES_IN_A_SAMPLE |-> "value"]

FplShortBlock ==
    <<"title", "log">> \o [k \in 1..(VALUES_IN_A_SAMPLE - 1) |-> "value"]
        \o <<"text">>

FplPieces == {<<"empty">>, <<"title">>, FplBlock, FplShortBlock}

FplSheets == StackedSheets(FplPieces)

\* sheet.cell(row=row, column=col).value of a sheet of the 4PL script
fpl_cell_value(sh, row, col) ==
    LET c == col - sh.shift
        kind == IF row > sh.max_row THEN "empty" ELSE sh.rows[row]
    IN  CASE kind = "title" /\ c = 1 -> PyStr("Group A")
          [] kind = "log" /\ c = 1 -> PyStr("Log dil")
          [] kind = "log" /\ c = 2 -> PyStr("s1")
          [] kind = "value" /\ c = 1 -> PyStr("0,5")
          [] kind = "value" /\ c = 2 -> PyNum(row)
          [] kind = "text" /\ c = 1 -> PyNum(row)
          [] kind = "text" /\ c = 2 -> PyStr("n/a")
          [] OTHER -> PyNone

\* validate_sample of the 4PL script
fpl_validate_sample(sh, first_row, col) ==
    \A row \in first_row..(first_row + VALUES_IN_A_SAMPLE - 1) :
        validate_float(fpl_cell_value(sh, row, col))

\* a plausible slip: the search is resumed at the row of the group
GroupInfo_resumes_at_group(group_title, row, col) ==
    [kind |-> "info", title |-> group_title, cell |-> <<row, col>>,
     next_row |-> row]

\* the dictionary find_group returns
GroupInfo(group_title, row, col) ==
    [kind |-> "info", title |-> group_title, cell |-> <<row, col>>,
     next_row |-> row + VALUES_IN_A_SAMPLE + 3]

\* the columns of a row, in the order of the inner loop, that pass the
\* tests of find_group
group_cols(sh, row) ==
    {col \in GROUP_START_COL..GROUP_END_COL :
        /\ validate_group_title(fpl_cell_value(sh, row, col))
        /\ validate_log_string(fpl_cell_value(sh, row + 1, col))
        /\ validate_float(fpl_cell_value(sh, row + 2, col))
        /\ fpl_validate_sample(sh, row + 2, col + 1)}

\* the first column of a set of columns
first_col(cols) == CHOOSE col \in cols : \A other \in cols : col <= other

\* the outer loop of find_group from a row on
RECURSIVE find_group(_, _)
find_group(sh, row) ==
    IF row > sh.max_row THEN NoWellplateInfo
    ELSE IF group_cols(sh, row) = {} THEN find_group(sh, row + 1)
    ELSE LET col == first_col(group_cols(sh, row))
         IN  GroupInfo(fpl_cell_value(sh, row, col).v, row, col)

\* one pass of the loop of get_available_groups, and what follows the loop
\* when it is left
GetAvailableGroups ==
    /\ pc = "find"
    /\ script = "4PL"
    /\ \E group_info \in {find_group(sheet, next_row)} :
           IF group_info = NoWellplateInfo
           THEN /\ IF Len(found) < 1
                   THEN /\ pc' = "failed"
                        /\ error' = [kind |-> "could_not_locate_any",
                                     sheet |-> sheet.title]
                   ELSE /\ pc' = "extracted"
                        /\ UNCHANGED error
                /\ UNCHANGED <<found, next_row>>
           ELSE /\ found' = Append(found, group_info)
                /\ next_row' = group_info.next_row
                /\ UNCHANGED <<pc, error>>
    /\ UNCHANGED <<script, groups, wellplate, wellplate_data, current_key,
                   cursor, well_nbr, walk_prev, visited, data_file, sheet>>
    /\ UNCHANGED sigVars
    /\ UNCHANGED statVars
    /\ UNCHANGED fitVars
    /\ UNCHANGED dilVars

\* statistics script: a block of a group is its title, the 'Sample' row
\* with two labels and the row of the two results; in a blank block the
\* labels are missing
StatBlock(title_kind) == <<title_kind, "sample", "result">>

StatBlankBlock == <<"title_a", "blank_sample", "result">>

StatPieces ==
    {<<"empty">>, StatBlock("title_a"), StatBlock("title_b"), StatBlankBlock}

StatSheets == StackedSheets(StatPieces)

\* sheet.cell(row=row, column=col).value of a sheet of the statistics script
stat_cell_value(sh, row, col) ==
    LET c == col - sh.shift
        kind == IF row > sh.max_row THEN "empty" ELSE sh.rows[row]
    IN  CASE kind = "title_a" /\ c = 1 -> PyStr("Group A")
          [] kind = "title_b" /\ c = 1 -> PyStr("group B")
          [] kind \in {"sample", "blank_sample"} /\ c = 1 -> PyStr("Sample")
          [] kind = "sample" /\ c = 2 -> PyStr("s1")
          [] kind = "sample" /\ c = 3 -> PyNum(2)
          [] kind = "result" /\ c = 1 -> PyStr("Result")
          [] kind = "result" /\ c \in {2, 3} -> PyNum(10 * row + c)
          [] OTHER -> PyNone

\* the while loop of extract_group_data: the results from sample i on
RECURSIVE group_data_from(_, _, _, _)
group_data_from(sh, row, col, i) ==
    IF /\ validate_text_or_float(stat_cell_value(sh, row + 1, col + 1 + i))
       /\ validate_float(stat_cell_value(sh, row + 2, col + 1 + i))
    THEN <<stat_cell_value(sh, row + 2, col + 1 + i).v>>
             \o group_data_from(sh, row, col, i + 1)
    ELSE <<>>

\* the dictionary extract_group_data returns
GroupDataInfo(group_title, group_data, row) ==
    [kind |-> "info", title |-> group_title, data |-> group_data,
     next_row |-> row + 3]

\* the columns of a row that pass the tests of extract_group_data
group_data_cols(sh, row) ==
    {col \in GROUP_START_COL..GROUP_END_COL :
        /\ validate_group_title(stat_cell_value(sh, row, col))
        /\ validate_sample_string(stat_cell_value(sh, row + 1, col))
        /\ validate_text_or_float(stat_cell_value(sh, row + 2, col))
        /\ group_data_from(sh, row, col, 0) # <<>>}

\* the outer loop of extract_group_data from a row on
RECURSIVE extract_group_data(_, _)
extract_group_data(sh, row) ==
    IF row > sh.max_row THEN NoWellplateInfo
    ELSE IF group_data_cols(sh, row) = {} THEN extract_group_data(sh, row + 1)
    ELSE LET col == first_col(group_data_cols(sh, row))
         IN  GroupDataInfo(stat_cell_value(sh, row, col).v,
                           group_data_from(sh, row, col, 0), row)

\* test_data: the data of the groups found, by title
test_data_titles(infos) == {infos[i].title : i \in DOMAIN infos}

\* one pass of the loop of extract_test_data, and what follows the loop
\* when it is left
ExtractTestData ==
    /\ pc = "find"
    /\ script = "STAT"
    /\ \E group_info \in {extract_group_data(sheet, next_row)} :
           IF group_info = NoWellplateInfo
           THEN /\ IF Cardinality(test_data_titles(found)) < 2
                   THEN /\ pc' = "failed"
                        /\ error' = [kind |-> "not_enough_groups",
                                     sheet |-> sheet.title]
                   ELSE /\ pc' = "extracted"
                        /\ UNCHANGED error
                /\ UNCHANGED <<found, next_row>>
           ELSE /\ found' = Append(found, group_info)
                /\ next_row' = group_info.next_row
                /\ UNCHANGED <<pc, error>>
    /\ UNCHANGED <<script, groups, wellplate, wellplate_data, current_key,
                   cursor, well_nbr, walk_prev, visited, data_file, sheet>>
    /\ UNCHANGED sigVars
    /\ UNCHANGED statVars
    /\ UNCHANGED fitVars
    /\ UNCHANGED dilVars

\* the sheets the three scripts search
InitScan ==
    /\ script \in {"EXTRACT", "4PL", "STAT"}
    /\ pc = "find"
    /\ groups = <<>>
    /\ wellplate = NoWellplate
    /\ wellplate_data = NoData
    /\ current_key = NoKey
    /\ cursor = <<1, 1, 1>>
    /\ well_nbr = 0
    /\ error = NoError
    /\ walk_prev = NoKey
    /\ visited = {}
    /\ data_file = NewDataFile
    /\ sheet \in CASE script = "EXTRACT" -> ExtractSheets
                   [] script = "4PL" -> FplSheets
                   [] OTHER -> StatSheets
    /\ found = <<>>
    /\ next_row = 1
    /\ interrupts = 0
    /\ stop_status = ""
    /\ p_value = 0
    /\ symbol = NoSymbol
    /\ fit_samples = <<>>
    /\ fit_results = <<>>
    /\ dil_series = <<>>
    /\ dil_calls = <<>>

ExtractWellplates == script = "EXTRACT" /\ FindWellplate

NextScan ==
    \/ ExtractWellplates
    \/ GetAvailableGroups
    \/ ExtractTestData

\* a loop that is running makes its next pass
SpecScan == InitScan /\ [][NextScan]_vars /\ WF_vars(NextScan)

(***************************************************************************)
(* A run of run_script that KeyboardInterrupts may hit.  The code runs to  *)
(* completion once started, so exit_by_interruption is not held up.        *)
(***************************************************************************)
\* plates of one filled row, O/1-12: with readings that differ, with the
\* same reading in every well, and with a text in G/3
InterruptWellplates ==
    {Wellplate({<<15, 1>>}, {}, {}, variant) :
        variant \in {"plain", "flat", "text"}}

InitInterrupt ==
    /\ Init
    /\ wellplate \in InterruptWellplates

NextInterrupt ==
    \/ DefineGroup
    \/ ExtractWellplateData
    \/ IntegrateStart
    \/ IntegrateStep
    \/ IntegrateReturn
    \/ StatisticsToDataFile
    \/ ExportsToDataFile
    \/ SaveFile
    \/ Interrupt
    \/ ExitByInterruption

SpecInterrupt ==
    InitInterrupt /\ [][NextInterrupt]_vars /\ WF_vars(ExitByInterruption)

(***************************************************************************)
(* integrate_wellplate_data called on its own: on the mapping of a plate   *)
(* and a list of groups that need not match it (run_script never does      *)
(* this; the pre-check of get_wellplate_data stands in between).           *)
(***************************************************************************)
\* the last two row segments of the walk, N/13-24 and P/13-24, and wells
\* of row P left empty: its first one and one in its middle
LateRowCandidates == {<<14, 13>>, <<16, 13>>}

LateHoleCells == {<<16, 13>>, <<16, 20>>}

InitIntegrate ==
    /\ script \in {"DORA", "EPD"}
    /\ pc = "integrate"
    /\ \E is_filler \in (IF script = "DORA" THEN BOOLEAN ELSE {FALSE}),
          sample_count \in 1..MaxSamples,
          parallel_count \in Range(PARALLEL_CHOICES) :
        /\ sample_count * parallel_count <= MaxTotalParallels
        /\ groups = <<NewGroup(<<>>,
                                IF is_filler THEN MOCK_ANALYSIS_TYPE
                                ELSE CONFIGURED_TYPE,
                                sample_count, parallel_count)>>
    /\ wellplate \in {Wellplate(rows, holes, {}, "plain") :
                        rows \in SUBSET LateRowCandidates,
                        holes \in SUBSET LateHoleCells}
    /\ wellplate_data = BuildData(wellplate)
    /\ current_key = NoKey
    /\ cursor = <<1, 1, 1>>
    /\ well_nbr = 0
    /\ error = NoError
    /\ walk_prev = NoKey
    /\ visited = {}
    /\ data_file = NewDataFile
    /\ sheet = NoSheet
    /\ found = <<>>
    /\ next_row = 1
    /\ interrupts = 0
    /\ stop_status = ""
    /\ p_value = 0
    /\ symbol = NoSymbol
    /\ fit_samples = <<>>
    /\ fit_results = <<>>
    /\ dil_series = <<>>
    /\ dil_calls = <<>>

NextIntegrate ==
    \/ IntegrateStart
    \/ IntegrateStep
    \/ IntegrateReturn

SpecIntegrate == InitIntegrate /\ [][NextIntegrate]_vars

(***************************************************************************)
(* The walker alone: repeated application of get_next_key from the key     *)
(* get_first_key starts at, ('A', '01').                                   *)
(***************************************************************************)
InitWalk ==
    /\ script = "DORA"
    /\ pc = "walk"
    /\ groups = <<>>
    /\ wellplate = NoWellplate
    /\ wellplate_data = NoData
    /\ current_key = <<"A", "01">>
    /\ cursor = <<1, 1, 1>>
    /\ well_nbr = 0
    /\ error = NoError
    /\ walk_prev = NoKey
    /\ visited = {}
    /\ data_file = NewDataFile
    /\ sheet = NoSheet
    /\ found = <<>>
    /\ next_row = 1
    /\ interrupts = 0
    /\ stop_status = ""
    /\ p_value = 0
    /\ symbol = NoSymbol
    /\ fit_samples = <<>>
    /\ fit_results = <<>>
    /\ dil_series = <<>>
    /\ dil_calls = <<>>

WalkStep ==
    /\ pc = "walk"
    /\ current_key # NoKey
    /\ current_key' = get_next_key(current_key)
    /\ walk_prev' = current_key
    /\ visited' = visited \cup {current_key}
    /\ UNCHANGED <<script, pc, groups, wellplate, wellplate_data, cursor,
                   well_nbr, error, data_file>>
    /\ UNCHANGED locVars
    /\ UNCHANGED sigVars
    /\ UNCHANGED statVars
    /\ UNCHANGED fitVars
    /\ UNCHANGED dilVars

NextWalk == WalkStep

SpecWalk == InitWalk /\ [][NextWalk]_vars

(***************************************************************************)
(* The plate as the claims describe it: rows A..P, columns 01..24.         *)
(***************************************************************************)
PLATE_ROW_LETTERS == <<"A","B","C","D","E","F","G","H",
                       "I","J","K","L","M","N","O","P">>

COL_LABELS == <<"01","02","03","04","05","06","07","08","09","10","11","12",
                "13","14","15","16","17","18","19","20","21","22","23","24">>

PlateAddresses ==
    {<<PLATE_ROW_LETTERS[r], COL_LABELS[c]>> :
        r \in DOMAIN PLATE_ROW_LETTERS, c \in DOMAIN COL_LABELS}

RowIndex(row_char) ==
    CHOOSE r \in DOMAIN PLATE_ROW_LETTERS : PLATE_ROW_LETTERS[r] = row_char

ColIndex(col_num) ==
    CHOOSE c \in DOMAIN COL_LABELS : COL_LABELS[c] = col_num

\* the addresses of columns lo..hi
ColumnBand(lo, hi) ==
    {<<PLATE_ROW_LETTERS[r], COL_LABELS[c]>> :
        r \in DOMAIN PLATE_ROW_LETTERS, c \in lo..hi}

\* The step rule in the words of the claim, on row and column indices.
RuleNext(key) ==
    LET r == RowIndex(key[1])
        c == ColIndex(key[2])
        first == IF c <= 12 THEN 1 ELSE 13
        last == first + 11
    IN  IF c # last THEN <<key[1], COL_LABELS[c + 1]>>
        ELSE IF r = 16 THEN <<"A", COL_LABELS[first + 12]>>
        ELSE IF r = 15 THEN <<"B", COL_LABELS[first]>>
        ELSE <<PLATE_ROW_LETTERS[r + 2], COL_LABELS[first]>>

\* C1: every step of the walker from an in-plate address other than the
\* last one (P,24) follows the rule: same row and column+1 inside a
\* segment; at the segment's last column the segment's first column two
\* rows down; after row O row B; after row P row A of the next segment.
C1_StepRule ==
    (pc = "walk" /\ walk_prev # NoKey /\ walk_prev # <<"P", "24">>)
        => /\ walk_prev \in PlateAddresses
           /\ current_key = RuleNext(walk_prev)

\* C1 witness: the jump from the odd sweep to the even sweep, and the
\* change of segment, have both been taken.
C1_Witness ==
    /\ pc = "walk"
    /\ walk_prev = <<"P", "12">>
    /\ current_key = <<"A", "13">>
    /\ <<"O", "12">> \in visited
    /\ <<"B", "01">> \in visited

\* C2: the walk from (A,01) never comes back to an address it has left;
\* when it first stands on (A,13) it has left exactly the 192 cells of
\* columns 1-12, until then it stays in columns 1-12, afterwards in
\* columns 13-24, and when it ends it has left exactly the 384 cells.
C2_EachCellOnce ==
    pc = "walk" =>
        /\ visited \subseteq PlateAddresses
        /\ current_key # NoKey => current_key \notin visited
        /\ current_key # NoKey =>
              IF Cardinality(visited) < 192
              THEN current_key \in ColumnBand(1, 12)
              ELSE current_key \in ColumnBand(13, 24)
        /\ current_key = <<"A", "13">> => visited = ColumnBand(1, 12)
        /\ current_key = NoKey =>
              /\ visited = PlateAddresses
              /\ Cardinality(visited) = 384

\* C2 witness: the walk has ended after 384 addresses.
C2_Witness ==
    /\ pc = "walk"
    /\ current_key = NoKey
    /\ Cardinality(visited) = 384

\* C3: get_next_key returns None for (P,24) and for no other address of
\* the plate; every other result is an address of the plate again, a row
\* letter A..P with a zero-padded column 01..24.
C3_SentinelOnlyAtEnd ==
    (pc = "walk" /\ walk_prev # NoKey) =>
        /\ current_key = NoKey <=> walk_prev = <<"P", "24">>
        /\ current_key # NoKey => current_key \in PlateAddresses

\* C3 witness: the step from (P,24) has returned None.
C3_Witness ==
    /\ pc = "walk"
    /\ walk_prev = <<"P", "24">>
    /\ current_key = NoKey

(***************************************************************************)
(* The structures as the claims read them.                                 *)
(***************************************************************************)
\* rows in loading order inside a segment: A,C,..,O then B,D,..,P
ROW_RANK == [A |-> 0, C |-> 1, E |-> 2, G |-> 3, I |-> 4, K |-> 5, M |-> 6,
             O |-> 7, B |-> 8, D |-> 9, F |-> 10, H |-> 11, J |-> 12,
             L |-> 13, N |-> 14, P |-> 15]

ROWS_BY_RANK == <<"A","C","E","G","I","K","M","O",
                  "B","D","F","H","J","L","N","P">>

COL_RANK ==
    "01" :> 0 @@ "02" :> 1 @@ "03" :> 2 @@ "04" :> 3 @@ "05" :> 4 @@ "06" :> 5
    @@ "07" :> 6 @@ "08" :> 7 @@ "09" :> 8 @@ "10" :> 9 @@ "11" :> 10
    @@ "12" :> 11 @@ "13" :> 12 @@ "14" :> 13 @@ "15" :> 14 @@ "16" :> 15
    @@ "17" :> 16 @@ "18" :> 17 @@ "19" :> 18 @@ "20" :> 19 @@ "21" :> 20
    @@ "22" :> 21 @@ "23" :> 22 @@ "24" :> 23

\* position (0..383) of an address in the loading order: segment, then
\* row rank, then column
TravPos(key) ==
    LET c == COL_RANK[key[2]]
    IN  (c \div 12) * 192 + ROW_RANK[key[1]] * 12 + (c % 12)

\* the address at a position of the loading order
KeyAt(q) ==
    <<ROWS_BY_RANK[((q % 192) \div 12) + 1],
      COL_LABELS[(q \div 192) * 12 + (q % 12) + 1]>>

\* all parallels in (group, sample, parallel) order
AllParallels(gs) ==
    Flatten([g \in DOMAIN gs |->
        Flatten([k \in DOMAIN gs[g].samples |-> gs[g].samples[k].parallels])])

IsSet(well) == well # NoWell

\* the wells a parallel holds, in slot order
HeldWells(parallel) ==
    IF script = "DORA"
    THEN SelectSeq(<<parallel.negative_control_1, parallel.negative_control_2>>
                       \o parallel.virals \o <<parallel.viral_control>>, IsSet)
    ELSE parallel.controls \o parallel.virals

Integrating == pc \in {"integrating", "integrated"}

Addr(well) == <<well.row_char, well.col_num>>

\* the mapping holds a numeric value at the address
NumericAt(key) == dict_get(wellplate_data, key).t = "number"

\* C4: in the DORA script every well a parallel holds carries a numeric
\* value, the value its address has in the mapping; the wells of a parallel
\* follow each other in loading order and no numeric cell of the mapping
\* lies between two of them: cells that are not numeric are passed over,
\* numeric cells never; and a parallel the integrator has left holds 12.
C4_SkipsEmpties ==
    (script = "DORA" /\ Integrating) =>
        LET pars == AllParallels(groups)
        IN  \A n \in DOMAIN pars :
                LET held == HeldWells(pars[n])
                IN  /\ Len(held) <= 12
                    /\ pc = "integrated" => Len(held) = 12
                    /\ \A k \in DOMAIN held :
                          /\ held[k].value.t = "number"
                          /\ NumericAt(Addr(held[k]))
                          /\ dict_get(wellplate_data, Addr(held[k])) = held[k].value
                    /\ \A k \in 1..(Len(held) - 1) :
                          LET here == TravPos(Addr(held[k]))
                              there == TravPos(Addr(held[k + 1]))
                          IN  /\ here < there
                              /\ \A q \in (here + 1)..(there - 1) :
                                    ~NumericAt(KeyAt(q))

\* C4 witness: a filled parallel whose 12 values were not 12 neighbouring
\* cells: empty cells lay between them.
C4_Witness ==
    /\ script = "DORA"
    /\ pc = "integrated"
    /\ \E n \in DOMAIN AllParallels(groups) :
          LET held == HeldWells(AllParallels(groups)[n])
          IN  /\ Len(held) = 12
              /\ \E k \in 1..11 :
                    TravPos(Addr(held[k + 1])) > TravPos(Addr(held[k])) + 1

\* C5: in a DORA parallel negative control 1 is the first value taken,
\* negative control 2 the second, the virals the third to eleventh in
\* order and the viral control the twelfth; in an EPD parallel the controls
\* are the first two wells taken and the virals the third to twelfth in
\* order, and there is no viral control slot.
C5_SlotsByPosition ==
    Integrating =>
        \A n \in DOMAIN AllParallels(groups) :
            LET par == AllParallels(groups)[n]
                held == HeldWells(par)
            IN  /\ \A k \in 1..(Len(held) - 1) :
                      TravPos(Addr(held[k])) < TravPos(Addr(held[k + 1]))
                /\ pc = "integrated" => Len(held) = 12
                /\ IF script = "DORA"
                   THEN /\ Len(par.virals) <= 9
                        /\ IsSet(par.negative_control_2)
                              => IsSet(par.negative_control_1)
                        /\ par.virals # <<>> => IsSet(par.negative_control_2)
                        /\ IsSet(par.viral_control) => Len(par.virals) = 9
                   ELSE /\ DOMAIN par = {"controls", "virals"}
                        /\ Len(par.controls) <= 2
                        /\ Len(par.virals) <= 10
                        /\ par.virals # <<>> => Len(par.controls) = 2

\* C5 witness: a DORA parallel has received its viral control as twelfth
\* value.
C5_Witness ==
    /\ script = "DORA"
    /\ pc = "integrated"
    /\ \E n \in DOMAIN AllParallels(groups) :
          LET par == AllParallels(groups)[n]
          IN  /\ IsSet(par.viral_control)
              /\ Len(par.virals) = 9
              /\ TravPos(Addr(par.virals[9])) < TravPos(Addr(par.viral_control))

\* the counts of the pre-check, taken from the sheet and the groups
NumericCellCount ==
    Cardinality({c \in DOMAIN wellplate.cells : wellplate.cells[c].t = "number"})

TotalParallels == Len(AllParallels(groups))

Extracted == pc \notin {"define_groups", "extract", "walk"}

\* C6: in the DORA script the mapping is returned only when the numeric
\* cells of the plate number 12 times the parallels of all groups, fillers
\* included; with fewer or more the run is aborted, and the pre-check,
\* which is reached when no header and no cell was refused while the plate
\* was read, reports both counts.
C6_PreCheck ==
    (script = "DORA" /\ Extracted) =>
        /\ pc # "failed" =>
              /\ wellplate_data # NoData
              /\ NumericCellCount = 12 * TotalParallels
        /\ NumericCellCount # 12 * TotalParallels =>
              /\ pc = "failed"
              /\ wellplate_data = NoData
              /\ Faults(wellplate) = {} =>
                    /\ error.kind = "count_mismatch"
                    /\ error.realized_total = NumericCellCount
                    /\ error.required_total = 12 * TotalParallels
        /\ error.kind = "count_mismatch" =>
              NumericCellCount # 12 * TotalParallels

\* C6 witness: a plate with more numeric cells than configured was refused
\* (a filler group is among the groups counted).
C6_Witness ==
    /\ script = "DORA"
    /\ pc = "failed"
    /\ error.kind = "count_mismatch"
    /\ error.realized_total > error.required_total
    /\ \E g \in DOMAIN groups : groups[g].is_filler

\* C7: when the run is aborted by the count mismatch, integration has not
\* started: no parallel of any group holds a well, the groups are as
\* define_groups left them.
C7_AbortBeforeIntegration ==
    error.kind = "count_mismatch" =>
        /\ pc = "failed"
        /\ current_key = NoKey
        /\ \A n \in DOMAIN AllParallels(groups) :
              AllParallels(groups)[n] =
                  (IF script = "DORA" THEN Parallel ELSE EPD_Parallel)

\* C7 witness: the abort by count mismatch with two groups defined.
C7_Witness ==
    /\ error.kind = "count_mismatch"
    /\ pc = "failed"
    /\ script = "DORA"
    /\ Len(groups) = 2

(***************************************************************************)
(* The scenario of one parallel on one plate.                              *)
(***************************************************************************)
\* one group of one sample of one parallel
OneParallelConfigured ==
    /\ Len(groups) = 1
    /\ Len(groups[1].samples) = 1
    /\ Len(groups[1].samples[1].parallels) = 1

\* the plate is labelled A..P and 1..24
StandardHeaders ==
    /\ wellplate.row_hdr = [i \in 1..WELLPLATE_ROWS |-> PyStr(UPPERCASE[i])]
    /\ wellplate.col_hdr = [j \in 1..WELLPLATE_COLS |-> PyNum(j)]

\* the grid holds n numeric values and nothing else
HoldsValues(n) ==
    /\ NumericCellCount = n
    /\ \A c \in DOMAIN wellplate.cells : wellplate.cells[c].t = "number"

InScenario ==
    /\ script = "DORA"
    /\ Extracted
    /\ StandardHeaders
    /\ OneParallelConfigured

\* the run was aborted by exit_by_error before save_file was reached
AbortedBeforeSave == pc = "failed" /\ error.kind # "unable_to_save"

\* C8 as stated: with 12 values on the grid the run is not aborted and
\* returns the parallel filled; with 11 the run fails by the error of the
\* integrator, "did not contain enough absorbance data".
C8_Original ==
    InScenario =>
        /\ HoldsValues(12) =>
              /\ ~AbortedBeforeSave
              /\ pc = "integrated" => Len(HeldWells(AllParallels(groups)[1])) = 12
        /\ HoldsValues(11) =>
              /\ pc = "failed"
              /\ error.kind = "not_enough_data"

\* C8 amended: with 12 values on the grid the run is not aborted and
\* returns the parallel filled; with 11 the run fails in get_wellplate_data
\* by the count mismatch, 11 readings realized against 12 required, and
\* the integrator is never entered: the parallel holds nothing.
C8_Amended ==
    InScenario =>
        /\ HoldsValues(12) =>
              /\ ~AbortedBeforeSave
              /\ pc = "integrated" => Len(HeldWells(AllParallels(groups)[1])) = 12
        /\ HoldsValues(11) =>
              /\ pc = "failed"
              /\ error.kind = "count_mismatch"
              /\ error.realized_total = 11
              /\ error.required_total = 12
              /\ AllParallels(groups) = <<Parallel>>

\* C8 witness: the run on the grid with one of the 12 values removed has
\* been aborted.
C8_Witness ==
    /\ InScenario
    /\ HoldsValues(11)
    /\ pc = "failed"
    /\ error.kind = "count_mismatch"

(***************************************************************************)
(* The end of the plate inside integrate_wellplate_data.                   *)
(***************************************************************************)
\* the error names the group (tissue) and the sample the cursor is in
NamesCursor(err, gs, cur) ==
    /\ err.kind = "not_enough_data"
    /\ err.group[2] = gs[cur[1]].ordinal
    /\ err.group[1] = (IF script = "DORA" THEN "Group" ELSE gs[cur[1]].title)
    /\ err.sample = (IF script = "DORA" THEN gs[cur[1]].samples[cur[2]].label
                     ELSE gs[cur[1]].samples[cur[2]].tube_label)

\* C9: a step of the integrator taken when the walker has returned None
\* and a parallel is still to be filled ends the run by the error that
\* names the group (tissue) and the sample of that parallel, and leaves the
\* groups alone; and whenever the integrator has returned, every parallel
\* holds 12 wells.
C9_SentinelIsFatal ==
    /\ [][(pc = "integrating" /\ cursor # Done /\ current_key = NoKey) =>
              /\ pc' = "failed"
              /\ NamesCursor(error', groups, cursor)
              /\ groups' = groups]_vars
    /\ [](pc = "integrated" =>
              \A n \in DOMAIN AllParallels(groups) :
                  Len(HeldWells(AllParallels(groups)[n])) = 12)

\* C9 witness: the run has been ended at the end of the plate with the
\* parallel under the cursor holding some wells but not 12.
C9_Witness ==
    /\ pc = "failed"
    /\ error.kind = "not_enough_data"
    /\ cursor # Done
    /\ LET held == HeldWells(ParallelAt(groups, cursor))
       IN  0 < Len(held) /\ Len(held) < 12

(***************************************************************************)
(* The wells of a finished run against the sheet.                          *)
(***************************************************************************)
\* the numeric cells of the sheet
SheetNumeric ==
    {c \in DOMAIN wellplate.cells : wellplate.cells[c].t = "number"}

\* the address a sheet cell is stored under: its validated headers
CellAddr(c) ==
    <<validate_row_char(wellplate.row_hdr[c[1]])[2],
      validate_col_num(wellplate.col_hdr[c[2]])[2]>>

\* all wells taken, in (group, sample, parallel, slot) order
WellsTaken(gs) ==
    LET pars == AllParallels(gs)
    IN  Flatten([n \in DOMAIN pars |-> HeldWells(pars[n])])

\* C10: when a DORA run has integrated its plate, the wells taken, read in
\* (group, sample, parallel, slot) order, are the numeric cells of the
\* sheet in loading order: as many wells as numeric cells, each the value
\* and the address of a numeric cell of its own, in strictly increasing
\* loading position.
C10_OrderPreserved ==
    (script = "DORA" /\ pc = "integrated") =>
        LET taken == WellsTaken(groups)
        IN  /\ Len(taken) = Cardinality(SheetNumeric)
            /\ \A c, d \in SheetNumeric : CellAddr(c) = CellAddr(d) => c = d
            /\ \A k \in DOMAIN taken :
                  \E c \in SheetNumeric :
                      /\ CellAddr(c) = Addr(taken[k])
                      /\ wellplate.cells[c] = taken[k].value
            /\ \A k \in 1..(Len(taken) - 1) :
                  TravPos(Addr(taken[k])) < TravPos(Addr(taken[k + 1]))

\* C10 witness: a finished DORA run over several parallels whose wells,
\* read in the order of the structure, do not follow the order of the
\* sheet: a well of row O is taken before a well of row B.
C10_Witness ==
    /\ script = "DORA"
    /\ pc = "integrated"
    /\ LET taken == WellsTaken(groups)
       IN  \E k \in 1..(Len(taken) - 1) :
               /\ taken[k].row_char = "O"
               /\ taken[k + 1].row_char = "B"

(***************************************************************************)
(* The parallels of a DORA run while and after they are filled.            *)
(***************************************************************************)
\* both negative controls, 9 measurement wells and the viral control are
\* set and hold numbers
FilledDora(par) ==
    /\ IsSet(par.negative_control_1)
    /\ IsSet(par.negative_control_2)
    /\ Len(par.virals) = 9
    /\ IsSet(par.viral_control)
    /\ \A k \in 1..12 : HeldWells(par)[k].value.t = "number"

\* C11: when the DORA integrator has returned, every parallel of every
\* sample of every group is filled (both negative controls, 9 measurement
\* wells, the viral control, all numeric); at no time does a parallel hold
\* more than 12 wells; a filled parallel is never changed again, and the
\* parallel a step changes has only filled parallels before it and only
\* empty ones after it.
C11_FilledOnReturn ==
    /\ []((script = "DORA" /\ pc = "integrated") =>
              \A n \in DOMAIN AllParallels(groups) :
                  FilledDora(AllParallels(groups)[n]))
    /\ []((script = "DORA" /\ Integrating) =>
              \A n \in DOMAIN AllParallels(groups) :
                  LET par == AllParallels(groups)[n]
                  IN  Len(par.virals) <= 9 /\ Len(HeldWells(par)) <= 12)
    /\ [][(script = "DORA" /\ Integrating) =>
              LET before == AllParallels(groups)
                  after == AllParallels(groups')
              IN  \A n \in DOMAIN before :
                      /\ FilledDora(before[n]) => after[n] = before[n]
                      /\ after[n] # before[n] =>
                            /\ \A m \in 1..(n - 1) : FilledDora(before[m])
                            /\ \A m \in (n + 1)..Len(before) :
                                  before[m] = Parallel]_vars

\* C11 witness: the integrator has returned two groups, a filler among
\* them, with all their parallels filled.
C11_Witness ==
    /\ script = "DORA"
    /\ pc = "integrated"
    /\ Len(groups) = 2
    /\ \E g \in DOMAIN groups : groups[g].is_filler
    /\ Len(AllParallels(groups)) >= 3
    /\ \A n \in DOMAIN AllParallels(groups) : FilledDora(AllParallels(groups)[n])

(***************************************************************************)
(* Filler groups.                                                          *)
(***************************************************************************)
AfterIntegration ==
    pc \in {"integrated", "statistics_done", "exported", "saved", "crashed"}

\* indices of the groups that are analysed, in order
AnalysedGroups == SelectSeq([g \in DOMAIN groups |-> g],
                            LAMBDA g : ~groups[g].is_filler)

\* the sheets made for groups, in workbook order
GroupSheets == SelectSeq(data_file.sheets, LAMBDA sh : Len(sh) = 3)

\* the wells of one group in (sample, parallel, slot) order
WellsOfGroup(group) ==
    Flatten([k \in DOMAIN group.samples |->
        Flatten([n \in DOMAIN group.samples[k].parallels |->
            HeldWells(group.samples[k].parallels[n])])])

\* C12: in a DORA run that passes the pre-check the numeric cells number
\* 12 for every parallel, those of filler groups included; after
\* integration every group, filler or not, holds 12 wells in each parallel
\* and the first well of the next group is the next numeric cell after its
\* last well; every sheet made for a group is the sheet of a group that is
\* not a filler, no sheet bears the name of a filler group, and every group
\* that is not a filler has a sheet of its name; the rows of the export are
\* those of the groups that are not fillers, in order.
C12_FillersConsumeNotAnalysed ==
    script = "DORA" =>
        /\ (Extracted /\ pc # "failed") =>
              NumericCellCount = 12 * TotalParallels
        /\ AfterIntegration =>
              /\ \A g \in DOMAIN groups :
                    Len(WellsOfGroup(groups[g])) =
                        12 * parallel_count_of(<<groups[g]>>)
              /\ \A g \in 1..(Len(groups) - 1) :
                    LET mine == WellsOfGroup(groups[g])
                        last == TravPos(Addr(mine[Len(mine)]))
                        first == TravPos(Addr(WellsOfGroup(groups[g + 1])[1]))
                    IN  /\ last < first
                        /\ \A q \in (last + 1)..(first - 1) : ~NumericAt(KeyAt(q))
        /\ \A k \in DOMAIN GroupSheets :
              \E a \in DOMAIN AnalysedGroups :
                  GroupSheets[k] = GroupStatistics(groups[AnalysedGroups[a]])
        /\ \A g \in DOMAIN groups :
              groups[g].is_filler =>
                  \A k \in DOMAIN GroupSheets :
                      GroupSheets[k] # GroupStatistics(groups[g])
        /\ pc \in {"statistics_done", "exported", "saved"} =>
              \A a \in DOMAIN AnalysedGroups :
                  \E k \in DOMAIN GroupSheets :
                      GroupSheets[k] = GroupStatistics(groups[AnalysedGroups[a]])
        /\ \A k \in DOMAIN data_file.export_rows :
              /\ k <= Len(AnalysedGroups)
              /\ data_file.export_rows[k] = groups[AnalysedGroups[k]].ordinal
        /\ pc \in {"exported", "saved"} =>
              Len(data_file.export_rows) = Len(AnalysedGroups)

\* C12 witness: a saved run of a filler group followed by a group that is
\* analysed: the filler holds the first 12 readings, the workbook has one
\* group sheet and the export one group.
C12_Witness ==
    /\ script = "DORA"
    /\ pc = "saved"
    /\ Len(groups) = 2
    /\ groups[1].is_filler
    /\ ~groups[2].is_filler
    /\ Len(WellsOfGroup(groups[1])) >= 12
    /\ GroupSheets = <<GroupStatistics(groups[2])>>
    /\ data_file.export_rows = <<groups[2].ordinal>>

(***************************************************************************)
(* The wells of an EPD run.                                                *)
(***************************************************************************)
\* C13: in the EPD script every well stored in the controls or the
\* measurement wells of a parallel holds a numeric value: a cell whose
\* value is empty is passed over and stored nowhere.
C13_EpdSkipsEmpties ==
    (script = "EPD" /\ Integrating) =>
        \A n \in DOMAIN AllParallels(groups) :
            LET held == HeldWells(AllParallels(groups)[n])
            IN  \A k \in DOMAIN held : held[k].value.t = "number"

(***************************************************************************)
(* The locator of the 384-well scripts.                                    *)
(***************************************************************************)
\* a locator run that has ended
Located == sheet # NoSheet /\ pc # "locate"

\* the value is the letter A in either case
IsLetterA(x) == x.t = "str" /\ x.v \in {"A", "a"}

\* the value is the column number 1
IsColumnOne(x) == x \in {PyNum(1), PyStr("1"), PyStr("01")}

\* the cell holds nothing
IsEmptyCell(x) == x = PyNone

\* row r of the sheet meets the three conditions of an anchor row
Qualifies(sh, r) ==
    /\ r + 1 <= sh.max_row
    /\ IsLetterA(sh.col1[r + 1])
    /\ IsColumnOne(sh.col2[r])
    /\ IsEmptyCell(sh.col1[r])

QualifyingRows(sh) == {r \in 1..sh.max_row : Qualifies(sh, r)}

SetMin(S) == CHOOSE x \in S : \A y \in S : x <= y

\* C14: find_wellplate_start returns (r, 1) for the topmost row r whose cell
\* below is the letter A in either case, whose cell to the right is the
\* column number 1 and which is itself empty; a row failing one of the three
\* conditions is not returned.
C14_TopmostQualifyingRow ==
    Located =>
        /\ QualifyingRows(sheet) # {} =>
              /\ pc = "located"
              /\ found = <<Returned(SetMin(QualifyingRows(sheet)), 1)>>
        /\ pc = "located" => found[1].start_row \in QualifyingRows(sheet)

\* C15: find_wellplate_start ends in one of two ways only: it returns an
\* anchor (a row of the sheet and column 1), or exit_by_error reports that
\* the wellplate could not be located and names the sheet; so also when the
\* first 'A' of the sheet stands in its row 1.
C15_AnchorOrFatalError ==
    Located =>
        \/ /\ pc = "located"
           /\ found[1].start_row \in 1..sheet.max_row
           /\ found[1].start_col = 1
        \/ /\ pc = "failed"
           /\ error = CouldNotLocate(sheet.title)

\* the first row past the rows that a located wellplate takes up: its row of
\* column labels and its WELLPLATE_ROWS rows of wells
RowPast(anchor) == anchor.start_row + WELLPLATE_ROWS + 1

\* C16: several wellplates on one sheet are supported by the 384-well
\* scripts: once a wellplate has been located, a wellplate that the scan
\* finds from the row just past it on is located too.
C16_NextWellplateLocated ==
    (sheet # NoSheet /\ pc = "located") =>
        LET next == find_wellplate_start_from(sheet, RowPast(found[Len(found)]))
        IN  next.kind = "return" => \E i \in DOMAIN found : found[i] = next

(***************************************************************************)
(* The locator of the 96-well extractor.                                   *)
(***************************************************************************)
\* the cell of the sheet is numeric
NumericCell(sh, row, col) == extract_cell_value(sh, row, col).t = "number"

\* row k of the sheet holds 12 consecutive numeric cells from col on
FullRow(sh, k, col) == \A c \in col..(col + 11) : NumericCell(sh, k, c)

\* the rows and columns where each full row of the sheet starts
FullRows(sh) ==
    {p \in (1..sh.max_row) \X (1..5) : FullRow(sh, p[1], p[2])}

\* the position qualifies: its cell is numeric and at least 4 of the 8 rows
\* from it downward are full rows (full being the set FullRows of the sheet)
Qualifies96(sh, full, row, col) ==
    /\ NumericCell(sh, row, col)
    /\ Cardinality({k \in row..(row + 7) : <<k, col>> \in full}) >= 4

\* the positions scanned from start_row on
Positions(sh, start_row) == (start_row..sh.max_row) \X (1..5)

\* position p is scanned before position q
ScannedBefore(p, q) == p[1] < q[1] \/ (p[1] = q[1] /\ p[2] < q[2])

\* what find_wellplate is to return from start_row on
FirstQualifying(sh, start_row) ==
    LET full == FullRows(sh)
        qualifying == {p \in Positions(sh, start_row) :
                          Qualifies96(sh, full, p[1], p[2])}
    IN  IF qualifying = {} THEN <<>>
        ELSE CHOOSE p \in qualifying :
                \A q \in qualifying \ {p} : ScannedBefore(p, q)

\* C17: each call of find_wellplate by extract_wellplates returns the first
\* position, rows from start_row downward and columns 1..5 left to right,
\* whose cell is numeric and that has at least 4 full rows of 12 numeric
\* cells among the 8 rows from it downward; it returns None, which ends the
\* loop, exactly when no position qualifies.
C17_FirstQualifyingPosition ==
    [][pc = "find" =>
        \E first \in {FirstQualifying(sheet, next_row)} :
            IF first = <<>>
            THEN found' = found /\ pc' # "find"
            ELSE /\ Len(found') = Len(found) + 1
                 /\ found'[Len(found')].start = first
                 /\ pc' = "find"]_vars

C17_Witness ==
    /\ script = "EXTRACT"
    /\ pc = "extracted"
    /\ Len(found) = 1
    /\ found[1].start[1] > 1
    /\ NumericCell(sheet, 1, 1)
    /\ FullRow(sheet, ExtractSheetRows, 1)

(***************************************************************************)
(* Text in a well.                                                         *)
(***************************************************************************)
\* the cells of the region that hold a value that is neither empty nor
\* numeric
TextCells(wp) == {c \in DOMAIN wp.cells : wp.cells[c].t = "str"}

\* every row label and every column label of the region is valid
ValidHeaders(wp) ==
    /\ \A i \in 1..WELLPLATE_ROWS : validate_row_char(wp.row_hdr[i])[1]
    /\ \A j \in 1..WELLPLATE_COLS : validate_col_num(wp.col_hdr[j])[1]

C19_FatalReachesExitByError ==
    /\ pc # "crashed"
    /\ pc = "failed" => error.kind \notin {"none", "uncaught"}

(***************************************************************************)
(* Interruption.                                                           *)
(***************************************************************************)
\* what the steps of the pipeline work on
pipelineVars == <<groups, wellplate_data, current_key, cursor, well_nbr,
                  error, data_file>>

RuleSymbol(p) ==
    CASE p <= 10 -> "****"
      [] 10 < p /\ p <= 100 -> "***"
      [] 100 < p /\ p <= 1000 -> "**"
      [] 1000 < p /\ p <= 5000 -> "*"
      [] p > 5000 -> "ns"

\* C21: get_significance_symbol returns '****' up to 0.0001, '***' up to
\* 0.001, '**' up to 0.01, '*' up to 0.05, each bound included, and 'ns'
\* above 0.05; every p-value of [0, 1] gets one of the five symbols.
C21_SignificanceSymbol ==
    (script = "STAT" /\ pc = "symbol") =>
        /\ symbol = RuleSymbol(p_value)
        /\ symbol \in {"****", "***", "**", "*", "ns"}

\* the p-value 0.05 itself was given '*'
C21_Witness ==
    /\ script = "STAT"
    /\ pc = "symbol"
    /\ p_value = 5000
    /\ symbol = "*"

(***************************************************************************)
(* Curve fits.                                                             *)
(***************************************************************************)
\* the outcomes that are numeric degeneracies
Degenerate == {"ill_conditioned", "overflow", "extreme"}

\* the sample the loop of fit_group is at
FitAt == Len(fit_results) + 1

LastDilCall == dil_calls[Len(dil_calls)]

\* C23: after set_dil_series(init_dil, dil_factor) the series holds exactly
\* 9 dilutions, the first is init_dil, each next one is the one before
\* times the factor, or over |factor| when the factor is negative; with a
\* negative factor the series is descending; a second call replaces the
\* series.
C23_DilSeries ==
    dil_calls # <<>> =>
        LET init_dil == LastDilCall.init_dil
            dil_factor == LastDilCall.dil_factor
        IN  /\ Len(dil_series) = 9
            /\ rat_eq(dil_series[1], init_dil)
            /\ \A i \in 1..8 :
                  IF dil_factor < 0
                  THEN rat_eq(rat_times(dil_series[i + 1], abs(dil_factor)),
                              dil_series[i])
                  ELSE rat_eq(dil_series[i + 1],
                              rat_times(dil_series[i], dil_factor))
            /\ dil_factor < 0 =>
                  \A i \in 1..8 : rat_less(dil_series[i + 1], dil_series[i])

(***************************************************************************)
(* The pre-check of the EPD script.                                        *)
(***************************************************************************)
\* C24: in the EPD script a plate that was read without a refusal passes
\* get_wellplate_data exactly when its numeric cells, those holding 0
\* included, number 12 times the parallels configured; any other plate is
\* refused by the count mismatch.
C24_EpdCountsEveryNumeric ==
    (script = "EPD" /\ Extracted /\ Faults(wellplate) = {}) =>
        /\ NumericCellCount = 12 * TotalParallels => wellplate_data # NoData
        /\ NumericCellCount # 12 * TotalParallels =>
              /\ pc = "failed"
              /\ error.kind = "count_mismatch"

(***************************************************************************)
(* The order of the pipeline.                                              *)
(***************************************************************************)
\* the errors extraction and integration exit by
PipelineErrors ==
    {"row_char_missing", "row_char_invalid", "col_num_missing",
     "col_num_invalid", "absorbance_invalid", "count_mismatch",
     "no_absorbance_values", "not_enough_data", "key_missing"}

\* some parallel holds a well
SomeWellHeld ==
    \E n \in DOMAIN AllParallels(groups) :
        HeldWells(AllParallels(groups)[n]) # <<>>

\* save_file has been called
SaveCalled == pc = "saved" \/ error.kind = "unable_to_save"

\* C25: in a DORA run the groups no longer change once define_groups is
\* left, and nothing is read from the grid before; wells are integrated
\* only after the pre-check has returned the mapping; sheets are created
\* only after integration has filled every parallel; save_file is called
\* only after the statistics and export sheets exist, and no step follows
\* it; a run that extraction or integration ended by a fatal error has
\* created no sheet and has not called save_file.
C25_PipelineOrder ==
    /\ [](script = "DORA" =>
            /\ pc = "define_groups" => wellplate_data = NoData
            /\ SomeWellHeld => wellplate_data # NoData
            /\ data_file # NewDataFile =>
                  /\ \A n \in DOMAIN AllParallels(groups) :
                        FilledDora(AllParallels(groups)[n])
                  /\ PLATE_STATISTICS \in Range(data_file.sheets)
            /\ SaveCalled => GROUP_EXPORT \in Range(data_file.sheets)
            /\ error.kind \in PipelineErrors =>
                  /\ pc = "failed"
                  /\ data_file = NewDataFile
                  /\ ~SaveCalled)
    /\ [][script = "DORA" =>
            /\ pc # "define_groups" =>
                  /\ Len(groups') = Len(groups)
                  /\ Len(AllParallels(groups')) = Len(AllParallels(groups))
            /\ ~SaveCalled]_vars

\* integration has ended a run by a fatal error with wells already set, and
\* the workbook is as it was loaded
C25_Witness ==
    /\ script = "DORA"
    /\ pc = "failed"
    /\ error.kind \in {"key_missing", "not_enough_data", "no_absorbance_values"}
    /\ SomeWellHeld
    /\ data_file = NewDataFile

(***************************************************************************)
(* Integration after an accepted plate.                                    *)
(***************************************************************************)
\* get_wellplate_data has returned a mapping with all 384 addresses
AcceptedInFull ==
    /\ wellplate_data # NoData
    /\ wellplate_data.row_chars = Range(PLATE_ROW_LETTERS)
    /\ wellplate_data.col_nums = Range(COL_LABELS)

\* the position in the loading order of the last numeric cell
LastNumericPos == SeqMax({TravPos(key) : key \in DOMAIN wellplate_data.wells})

\* the parallel integrated last
LastParallel == AllParallels(groups)[Len(AllParallels(groups))]

\* C26: in a DORA run whose plate get_wellplate_data has accepted with all
\* 384 addresses in the mapping, integration does not end by an error; the
\* walker has a key whenever a parallel still needs wells; and on return
\* the viral control of the last parallel, its 12th well, is the last
\* numeric cell of the loading order.
C26_IntegrationCannotFail ==
    (script = "DORA" /\ AcceptedInFull) =>
        /\ error.kind \notin {"no_absorbance_values", "not_enough_data",
                              "key_missing"}
        /\ (pc = "integrating" /\ current_key = NoKey) =>
              \A n \in DOMAIN AllParallels(groups) :
                  FilledDora(AllParallels(groups)[n])
        /\ pc = "integrated" =>
              TravPos(Addr(LastParallel.viral_control)) = LastNumericPos

\* an accepted plate whose last reading is in P/24, the end of the walk,
\* has been integrated into more than one parallel: the walker was
\* exhausted by the step that filled the last parallel
C26_Witness ==
    /\ script = "DORA"
    /\ AcceptedInFull
    /\ pc = "integrated"
    /\ Len(AllParallels(groups)) >= 2
    /\ NumericAt(<<"P", "24">>)
    /\ current_key = NoKey

(***************************************************************************)
(* The control columns of the plate statistics.                            *)
(***************************************************************************)
\* calculate_wellplate_statistics: the addresses it reads are built with
\* str(col).zfill(2) from LEFT/RIGHT_NEG_CTRL_COL_NUMS = [1, 2], [13, 14]
\* and LEFT/RIGHT_VIR_CTRL_COL_NUM = 12, 24
NEG_CTRL_COL_NUMS == {"01", "02", "13", "14"}

VIR_CTRL_COL_NUMS == {"12", "24"}

\* the half of the plate a column belongs to (0: 1-12, 1: 13-24)
SegmentOf(col_num) == COL_RANK[col_num] \div WELLS_IN_A_PARALLEL

\* C27: after the DORA integration of an accepted plate the 12 wells of
\* every parallel lie in one plate row of one segment, every
\* negative-control well is in column 1, 2, 13 or 14 and every
\* viral-control well is in column 12 or 24
C27_ControlsInFixedColumns ==
    (script = "DORA" /\ pc = "integrated") =>
        \A n \in DOMAIN AllParallels(groups) :
            LET par == AllParallels(groups)[n]
                wells == get_wells(par)
            IN  /\ \A a, b \in DOMAIN wells :
                    /\ wells[a].row_char = wells[b].row_char
                    /\ SegmentOf(wells[a].col_num) = SegmentOf(wells[b].col_num)
                /\ par.negative_control_1.col_num \in NEG_CTRL_COL_NUMS
                /\ par.negative_control_2.col_num \in NEG_CTRL_COL_NUMS
                /\ par.viral_control.col_num \in VIR_CTRL_COL_NUMS

(***************************************************************************)
(* The statistics sheets of the groups.                                    *)
(***************************************************************************)
NonFillerGroups == {g \in DOMAIN groups : ~groups[g].is_filler}

\* the sheets of the workbook that are the statistics sheet of a group
GroupStatisticsSheets ==
    {k \in DOMAIN data_file.sheets :
        \E g \in NonFillerGroups : data_file.sheets[k] = GroupStatistics(groups[g])}

\* C28: after statistics_to_data_file the workbook holds one distinct
\* statistics sheet for each group that is not a filler: no sheet of an
\* earlier group has been deleted by writing the sheet of a later one
C28_OneSheetPerGroup ==
    (script = "DORA" /\ pc = "statistics_done") =>
        Cardinality(GroupStatisticsSheets) = Cardinality(NonFillerGroups)

(***************************************************************************)
(* The rows of an extracted wellplate (96-well extractor).                 *)
(***************************************************************************)
\* the sheet rows of the segment extract_wellplates takes for a wellplate
PlateRows(info) == info.start[1]..info.end[1]

\* the full rows find_wellplate counted for the wellplate
CountedRows(sh, info) ==
    {r \in info.start[1]..(info.start[1] + EXTRACT_WELLPLATE_ROWS - 1) :
        <<r, info.start[2]>> \in FullRows(sh)}

\* C29: every wellplate returned by extract_wellplates consists only of
\* full rows of 12 numeric cells, contains every full row that was counted
\* for it, and no sheet row belongs to two extracted wellplates
C29_WellplateOfFullRows ==
    script = "EXTRACT" =>
        /\ \A i \in DOMAIN found :
              /\ \A r \in PlateRows(found[i]) :
                    <<r, found[i].start[2]>> \in FullRows(sheet)
              /\ CountedRows(sheet, found[i]) \subseteq PlateRows(found[i])
        /\ \A i, j \in DOMAIN found :
              i # j => PlateRows(found[i]) \cap PlateRows(found[j]) = {}

(***************************************************************************)
(* The loops that search a sheet block by block.                           *)
(***************************************************************************)
\* the row where the block of a returned dictionary was found by a search
\* that started at start_row: the row of its start cell (96-well
\* extractor), of its title cell (4PL script), or the first row from
\* start_row on that passes the tests of a group (statistics script, whose
\* dictionary does not hold the row)
FoundRow(info, start_row) ==
    CASE script = "EXTRACT" -> info.start[1]
      [] script = "4PL" -> info.cell[1]
      [] OTHER ->
            CHOOSE row \in start_row..sheet.max_row :
                /\ group_data_cols(sheet, row) # {}
                /\ \A above \in start_row..(row - 1) :
                      group_data_cols(sheet, above) = {}

\* a pass of a loop that located a block
BlockLocated == pc = "find" /\ found' # found

\* C30: in extract_wellplates, get_available_groups and extract_test_data
\* each located block makes the next search start at a row strictly
\* greater than the row where the block was found, so the search row
\* strictly increases and the block lies below every block returned
\* before (no block is returned twice); the loop ends with a None result,
\* after at most max_row passes
C30_BlockScansTerminate ==
    /\ [][BlockLocated =>
            LET info == found'[Len(found')]
                row == FoundRow(info, next_row)
            IN  /\ found' = Append(found, info)
                /\ row >= next_row
                /\ next_row' = info.next_row
                /\ next_row' > row
                /\ next_row' > next_row
                /\ \A i \in DOMAIN found : found[i].next_row <= row]_vars
    /\ [](pc # "find" => Len(found) + 1 <= sheet.max_row)
    /\ <>(pc # "find")

\* the 4PL loop has ended after it located two groups
C30_Witness ==
    /\ script = "4PL"
    /\ pc = "extracted"
    /\ Len(found) = 2
    /\ next_row > sheet.max_row

====
